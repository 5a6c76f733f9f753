----------------------------- MODULE DeviceBrowser -----------------------------
(***************************************************************************)
(* The browser of an Android device (android/src/adapter.ts): it is reached  *)
(* through a port that the ADB server forwards.  The server has one entry     *)
(* per port, which other programs may make, replace and remove; the adapter  *)
(* owns the entry it made, looks at it before and after every request, and   *)
(* takes it away when the browser is disconnected.                          *)
(*                                                                         *)
(* BrowserLifetime decides which operations there are; here reservation      *)
(* stands for it.  Every command of ADB and every request of the browser is  *)
(* a step.  An operation that does not end in time after its abort is        *)
(* abandoned: nobody waits for it, and it goes on.                          *)
(***************************************************************************)
EXTENDS Naturals

CONSTANTS
  MaxDeviceOps,     \* operations on the browser
  MaxDeviceFaults,  \* commands that fail, operations that are aborted
  MaxDeviceMoves    \* moves of other programs and of the cable

ASSUME DeviceAssumption == {MaxDeviceOps, MaxDeviceFaults, MaxDeviceMoves} \subseteq Nat

VARIABLES
  mapping,      \* the entry of the port: "none", "ours" or "foreign"
  lateCreate,   \* the command that creates it may still be alive
  ownership,    \* OwnedAdbForward: "none", "owned" or "attempted"
  phone,        \* the device: "there" or "gone", and as it was last seen
  instance,     \* the instance of the browser: its generation and state
  recoveredRefs,
  reservation,  \* of the lifetime coordinator: state, reference and users
  deviceOp,     \* the operations
  acted,        \* history: on whose browser an operation had its effect
  lateEffect,   \* operations whose request may still reach the browser
  trampled,     \* history: an abandoned operation has written the ownership
  deviceFaults, deviceMoves

forwardVars == <<mapping, lateCreate, ownership, trampled>>
effectVars == <<acted, lateEffect>>
adapterVars == <<phone, instance, recoveredRefs>>
boundVars == <<deviceFaults, deviceMoves>>
deviceVars == <<forwardVars, effectVars, adapterVars, reservation, deviceOp, boundVars>>

\* Operations are numbered in the order of their admission.
DeviceOps == 1..MaxDeviceOps
DeviceKinds == {"connect", "open", "act", "read", "disconnect", "recover"}
NewOp == [kind |-> "none", at |-> "new", ref |-> 0, stage |-> "not-sent", error |-> "none", aborted |-> FALSE,
          abandoned |-> FALSE, result |-> "none", lease |-> "none", seen |-> "none"]

DeviceInit ==
  /\ mapping = "none" /\ lateCreate = FALSE /\ ownership = "none" /\ trampled = FALSE
  /\ phone = [is |-> "there", seen |-> "unknown"]
  /\ instance = [gen |-> 0, state |-> "disconnected"] /\ recoveredRefs = {}
  /\ reservation = [state |-> "none", ref |-> 0, users |-> {}]
  /\ deviceOp = [o \in DeviceOps |-> NewOp]
  /\ acted = [o \in DeviceOps |-> "no"] /\ lateEffect = {}
  /\ deviceFaults = 0 /\ deviceMoves = 0

DeviceFault == deviceFaults < MaxDeviceFaults /\ deviceFaults' = deviceFaults + 1
NoDeviceFault == UNCHANGED deviceFaults
Becomes(o, fields) == deviceOp' = [deviceOp EXCEPT ![o] = fields]
Goes(o, at) == Becomes(o, [deviceOp[o] EXCEPT !.at = at])
Is(o, at) == deviceOp[o].at = at
PhoneRests == UNCHANGED <<phone, recoveredRefs, deviceMoves>>

-----------------------------------------------------------------------------
(* Other programs, the cable, and what was given up but still happens.      *)

DeviceMoves ==
  /\ deviceMoves < MaxDeviceMoves /\ deviceMoves' = deviceMoves + 1
  /\ UNCHANGED <<deviceFaults, reservation, deviceOp, effectVars, instance, recoveredRefs>>
ForeignForward ==
  /\ DeviceMoves
  /\ mapping' \in {"foreign", "none"} \ {mapping}
  /\ UNCHANGED <<lateCreate, ownership, trampled, phone>>
PhoneMoves ==
  /\ DeviceMoves
  /\ phone' = [phone EXCEPT !.is = IF @ = "there" THEN "gone" ELSE "there"]
  /\ mapping' = IF phone.is = "there" /\ mapping = "ours" THEN "none" ELSE mapping
  /\ UNCHANGED <<lateCreate, ownership, trampled>>
CreateLandsLate ==
  /\ lateCreate /\ lateCreate' = FALSE
  /\ mapping' = IF mapping = "none" THEN "ours" ELSE mapping
  /\ UNCHANGED <<ownership, trampled, effectVars, adapterVars, reservation, deviceOp, boundVars>>
EffectLandsLate(o) ==
  /\ o \in lateEffect /\ lateEffect' = lateEffect \ {o}
  /\ acted' = [acted EXCEPT ![o] = IF mapping = "none" THEN @ ELSE mapping]
  /\ UNCHANGED <<forwardVars, adapterVars, reservation, deviceOp, boundVars>>

-----------------------------------------------------------------------------
(* What an operation leaves.                                               *)

\* The reservation follows those operations only that it still waits for.
Leaves(o, state) ==
  reservation' = IF deviceOp[o].abandoned THEN reservation
                 ELSE [reservation EXCEPT !.users = @ \ {o}, !.state = state]

NextInstance == [gen |-> instance.gen + 1, state |-> "degraded"]

\* What is left of an operation that ended.
DeviceOpEnds(o, result, stage, lease) ==
  Becomes(o, [NewOp EXCEPT !.kind = deviceOp[o].kind, !.at = "done", !.result = result,
                !.stage = stage, !.lease = lease])

\* An error that says nothing of the transport leaves the instance as it is.
DeliveryUnknown(stage, error) == stage = "sent" \/ error = "post"
FailsAs(o, error, stage) ==
  /\ DeviceOpEnds(o, "failed", IF error = "post" THEN "sent" ELSE stage,
          IF DeliveryUnknown(stage, error) THEN "quarantined" ELSE "released")
  /\ instance' = IF error = "plain" \/ deviceOp[o].kind = "recover" THEN instance ELSE NextInstance
  /\ Leaves(o, "quarantined")
Fails(o, error) == FailsAs(o, error, deviceOp[o].stage)

Succeeds(o, state) ==
  /\ DeviceOpEnds(o, "ok", "reconciled", "released")
  /\ Leaves(o, state)

\* A command under the operation's signal is refused once that is aborted.
Aborted(o) == deviceOp[o].aborted
MayRefuse(o) == IF Aborted(o) THEN NoDeviceFault ELSE DeviceFault
Broken(o) ==
  /\ MayRefuse(o)
  /\ \E error \in IF Aborted(o) THEN {"plain"} ELSE {"plain", "timeout"} : Fails(o, error)

SetOwnership(o, is) ==
  /\ ownership' = is
  /\ trampled' = (trampled \/ (deviceOp[o].abandoned /\ is # ownership))

-----------------------------------------------------------------------------
(* Admission, abort, and the start of the handler.                          *)

Admits(kind) ==
  CASE kind = "connect" -> reservation.state = "none"
    [] kind = "disconnect" -> reservation.state = "active" /\ reservation.users = {}
    [] kind = "recover" -> reservation.state = "quarantined" /\ reservation.users = {}
    [] OTHER -> reservation.state = "active"
                /\ \A u \in reservation.users : deviceOp[u].kind # "disconnect"

\* A connect takes the reference of the inventory, all others that of the reservation.
AdmitDeviceOp(o, kind) ==
  /\ Is(o, "new") /\ (\A before \in 1..(o - 1) : ~Is(before, "new")) /\ Admits(kind)
  /\ LET ref == IF kind = "connect" THEN instance.gen ELSE reservation.ref
     IN /\ Becomes(o, [NewOp EXCEPT !.kind = kind, !.at = "begin", !.ref = ref, !.lease = "held"])
        /\ reservation' = [state |-> IF kind = "connect" THEN "connecting" ELSE reservation.state,
                           ref |-> ref, users |-> reservation.users \cup {o}]
  /\ NoDeviceFault /\ PhoneRests /\ UNCHANGED <<forwardVars, effectVars, instance>>

Cancel(o) ==
  /\ deviceOp[o].at \notin {"new", "done"} /\ ~deviceOp[o].aborted /\ DeviceFault
  /\ Becomes(o, [deviceOp[o] EXCEPT !.aborted = TRUE])
  /\ PhoneRests /\ UNCHANGED <<forwardVars, effectVars, instance, reservation>>

\* A killed create ends within the grace of the abort.
Abandon(o) ==
  /\ deviceOp[o].aborted /\ ~deviceOp[o].abandoned /\ deviceOp[o].at \notin {"create", "done"}
  /\ Becomes(o, [deviceOp[o] EXCEPT !.abandoned = TRUE])
  /\ Leaves(o, "quarantined")
  /\ NoDeviceFault /\ PhoneRests /\ UNCHANGED <<forwardVars, effectVars, instance>>

\* requireInstance: the exact reference, and connected for all but the connect.
Current(o) == deviceOp[o].ref = instance.gen
BeginDeviceOp(o) ==
  /\ Is(o, "begin") /\ NoDeviceFault /\ PhoneRests /\ UNCHANGED <<forwardVars, effectVars>>
  /\ IF Aborted(o) THEN Fails(o, "plain")
     ELSE CASE deviceOp[o].kind = "recover" -> Goes(o, "look") /\ UNCHANGED <<instance, reservation>>
            [] OTHER ->
                 IF Current(o) /\ (deviceOp[o].kind = "connect" \/ instance.state = "connected")
                 THEN /\ Becomes(o, [deviceOp[o] EXCEPT
                             !.at = CASE deviceOp[o].kind = "connect" -> "devices"
                                      [] deviceOp[o].kind = "disconnect" -> "look"
                                      [] deviceOp[o].kind = "open" -> "drive.pre"
                                      [] OTHER -> "list.pre",
                             !.stage = IF deviceOp[o].kind \in {"act", "read"} THEN @ ELSE "sent"])
                      /\ UNCHANGED <<instance, reservation>>
                 ELSE Fails(o, "plain")

-----------------------------------------------------------------------------
(* Connect: the device, the port, the entry, the browser, the entry again.   *)

FindDevice(o) ==
  /\ Is(o, "devices") /\ PhoneRests /\ UNCHANGED <<forwardVars, effectVars>>
  /\ \/ ~Aborted(o) /\ phone.is = "there" /\ Goes(o, "vacant") /\ NoDeviceFault
        /\ UNCHANGED <<instance, reservation>>
     \/ ~Aborted(o) /\ phone.is = "gone" /\ Fails(o, "plain") /\ NoDeviceFault
     \/ Broken(o)

PortIsVacant(o) ==
  /\ Is(o, "vacant") /\ PhoneRests /\ UNCHANGED <<forwardVars, effectVars>>
  /\ \/ ~Aborted(o) /\ mapping = "none" /\ Goes(o, "create") /\ NoDeviceFault
        /\ UNCHANGED <<instance, reservation>>
     \/ ~Aborted(o) /\ mapping # "none" /\ Fails(o, "plain") /\ NoDeviceFault
     \/ Broken(o)

\* The command creates, or fails having created or not, or nobody knows if it is
\* still alive.  It does not replace an entry.
CreateForward(o) ==
  /\ Is(o, "create") /\ PhoneRests /\ UNCHANGED effectVars
  /\ \/ /\ ~Aborted(o) /\ mapping = "none" /\ mapping' = "ours" /\ SetOwnership(o, "owned")
        /\ Goes(o, "version") /\ NoDeviceFault /\ UNCHANGED <<lateCreate, instance, reservation>>
     \/ /\ IF mapping = "none" THEN mapping' \in {"none", "ours"} /\ MayRefuse(o)
           ELSE NoDeviceFault /\ UNCHANGED mapping
        /\ Goes(o, "reconcile") /\ UNCHANGED <<lateCreate, ownership, trampled, instance, reservation>>
     \/ /\ DeviceFault /\ lateCreate' = TRUE /\ SetOwnership(o, "attempted")
        /\ Fails(o, "cleanup") /\ UNCHANGED mapping

\* reconcileFailedCreate: only an entry that is not there was certainly not made.
ReconcileCreate(o) ==
  /\ Is(o, "reconcile") /\ PhoneRests /\ UNCHANGED <<mapping, lateCreate, effectVars>>
  /\ \E seen \in {IF mapping = "none" THEN "nothing" ELSE "something", "error"} :
       /\ IF seen = "error" THEN DeviceFault ELSE NoDeviceFault
       /\ IF seen = "nothing" THEN SetOwnership(o, "none") /\ Fails(o, "plain")
          ELSE SetOwnership(o, "attempted") /\ Fails(o, "cleanup")

\* The browser answers, or the entry is taken away again with the first error kept.
AskVersion(o) ==
  /\ Is(o, "version") /\ PhoneRests /\ UNCHANGED <<forwardVars, effectVars, instance, reservation>>
  /\ \/ ~Aborted(o) /\ mapping # "none" /\ Goes(o, "after") /\ NoDeviceFault
     \/ /\ IF mapping = "none" THEN NoDeviceFault ELSE MayRefuse(o)
        /\ Becomes(o, [deviceOp[o] EXCEPT !.at = "look", !.error = "plain"])

-----------------------------------------------------------------------------
(* assertCurrent: the entry is owned, there, and as it was made.            *)

SomeEntry == ownership = "owned" /\ mapping # "none"  \* mutant
EntryIsOurs == ownership = "owned" /\ mapping = "ours"
AssertCurrent(o, at, next, lost, failed) ==
  /\ Is(o, at) /\ PhoneRests /\ UNCHANGED <<forwardVars, effectVars>>
  /\ \/ ~Aborted(o) /\ EntryIsOurs /\ next /\ NoDeviceFault
     \/ ~Aborted(o) /\ ~EntryIsOurs /\ lost /\ NoDeviceFault
     \/ MayRefuse(o) /\ failed
Then(o, at) == Goes(o, at) /\ UNCHANGED <<instance, reservation>>

ConfirmForward(o) ==
  LET Undo == /\ Becomes(o, [deviceOp[o] EXCEPT !.at = "look", !.error = "post"])
              /\ UNCHANGED <<instance, reservation>>
      Connected == /\ Becomes(o, [deviceOp[o] EXCEPT !.at = "verify", !.stage = "acknowledged",
                                    !.ref = instance.gen + 1])
                   /\ instance' = [gen |-> instance.gen + 1, state |-> "connected"]
                   /\ UNCHANGED reservation
  IN AssertCurrent(o, "after", Connected, Undo, Undo)

\* verifyConnected: the exact instance, and the status of the entry.
VerifyConnected(o) ==
  /\ Is(o, "verify") /\ PhoneRests /\ UNCHANGED <<forwardVars, effectVars, instance>>
  /\ \/ /\ ~Aborted(o) /\ Current(o) /\ instance.state = "connected" /\ EntryIsOurs
        /\ DeviceOpEnds(o, "ok", "reconciled", "released")
        /\ reservation' = IF deviceOp[o].abandoned THEN reservation
                          ELSE [state |-> "active", ref |-> deviceOp[o].ref, users |-> {}]
        /\ NoDeviceFault
     \/ /\ IF Current(o) /\ instance.state = "connected" /\ EntryIsOurs THEN MayRefuse(o)
           ELSE NoDeviceFault
        /\ DeviceOpEnds(o, "failed", deviceOp[o].stage, "quarantined")
        /\ Leaves(o, "quarantined")

-----------------------------------------------------------------------------
(* Disconnect: of an operation, of a failed connect, of a recovery.  It has   *)
(* no signal.                                                              *)

\* What follows a forward that is gone, and one of which that is not known.
ForwardIsGone(o) ==
  CASE deviceOp[o].kind = "connect" -> Fails(o, deviceOp[o].error)
    [] deviceOp[o].kind = "recover" -> Then(o, "status")
    [] OTHER -> /\ Becomes(o, [deviceOp[o] EXCEPT !.at = "verify", !.stage = "acknowledged"])
                /\ instance' = [instance EXCEPT !.state = "disconnected"]
                /\ UNCHANGED reservation

LookAtForward(o) ==
  /\ Is(o, "look") /\ PhoneRests /\ UNCHANGED <<forwardVars, effectVars>>
  /\ \/ ownership = "none" /\ ForwardIsGone(o) /\ NoDeviceFault
     \/ ownership = "attempted" /\ Fails(o, "cleanup") /\ NoDeviceFault
     \/ /\ ownership = "owned" /\ NoDeviceFault
        /\ Becomes(o, [deviceOp[o] EXCEPT !.at = "looked", !.seen = mapping])
        /\ UNCHANGED <<instance, reservation>>
     \/ /\ ownership = "owned" /\ DeviceFault
        /\ Fails(o, IF deviceOp[o].kind = "connect" THEN "cleanup" ELSE "plain")

\* The answer may be old when it comes, and another operation may have begun.
ActOnLook(o) ==
  /\ Is(o, "looked") /\ PhoneRests /\ NoDeviceFault /\ UNCHANGED <<mapping, lateCreate, effectVars>>
  /\ CASE deviceOp[o].seen = "none" -> SetOwnership(o, "none") /\ ForwardIsGone(o)
       [] deviceOp[o].seen = "foreign" -> Fails(o, "cleanup") /\ UNCHANGED <<ownership, trampled>>
       [] OTHER -> Then(o, "remove") /\ UNCHANGED <<ownership, trampled>>

\* The server removes whatever entry the port has by now.
RemoveForward(o) ==
  /\ Is(o, "remove") /\ PhoneRests /\ UNCHANGED <<lateCreate, ownership, trampled, effectVars>>
  /\ \/ mapping # "none" /\ mapping' = "none" /\ Then(o, "removed") /\ NoDeviceFault
     \/ /\ mapping' \in {"none", mapping}
        /\ IF mapping = "none" THEN NoDeviceFault ELSE DeviceFault
        /\ Fails(o, IF deviceOp[o].kind = "connect" THEN "cleanup" ELSE "plain")
DropOwnership(o) ==
  /\ Is(o, "removed") /\ PhoneRests /\ NoDeviceFault /\ UNCHANGED <<mapping, lateCreate, effectVars>>
  /\ SetOwnership(o, "none") /\ ForwardIsGone(o)

\* forwardStatus under the recovery: the entry must be absent, whoever made it.
RecoverRemoval(o) ==
  /\ Is(o, "status") /\ UNCHANGED <<forwardVars, effectVars, phone, deviceMoves>>
  /\ \/ /\ ~Aborted(o) /\ mapping = "none" /\ NoDeviceFault
        /\ instance' = [instance EXCEPT !.state = "disconnected"]
        /\ recoveredRefs' = recoveredRefs \cup {deviceOp[o].ref}
        /\ Goes(o, "verify") /\ UNCHANGED reservation
     \/ /\ IF mapping = "none" THEN MayRefuse(o) ELSE NoDeviceFault
        /\ Fails(o, "plain") /\ UNCHANGED recoveredRefs

\* verifyRemoved, of a disconnect and of a recovery.
DisconnectedExact(o) ==
  deviceOp[o].ref \in recoveredRefs \/ (Current(o) /\ instance.state # "connected")
VerifyRemoved(o) ==
  /\ Is(o, "verify") /\ PhoneRests /\ UNCHANGED <<forwardVars, effectVars, instance>>
  /\ \/ ~Aborted(o) /\ DisconnectedExact(o) /\ mapping = "none" /\ Succeeds(o, "none") /\ NoDeviceFault
     \/ /\ IF DisconnectedExact(o) /\ mapping = "none" THEN MayRefuse(o) ELSE NoDeviceFault
        /\ DeviceOpEnds(o, "failed", deviceOp[o].stage, "quarantined")
        /\ Leaves(o, "quarantined")

-----------------------------------------------------------------------------
(* Requests of the browser: each between two looks at the entry.            *)

BeforeRequest(o, pre, phase) ==
  AssertCurrent(o, pre, Then(o, phase), Fails(o, "pre"), Fails(o, "plain"))

\* The second look: every error of it means that the request may have gone astray.
AfterRequest(o, post, next) ==
  AssertCurrent(o, post, next, Fails(o, "post"), Fails(o, "post"))

\* A list, a version or a wait: it tells nothing of whose browser it was.
Reads(o, phase, post) ==
  /\ Is(o, phase) /\ PhoneRests /\ UNCHANGED <<forwardVars, effectVars>>
  /\ \/ ~Aborted(o) /\ mapping # "none" /\ Then(o, post) /\ NoDeviceFault
     \/ mapping # "none" /\ Broken(o)
     \/ mapping = "none" /\ Fails(o, "plain") /\ NoDeviceFault

ListTarget(o) ==
  LET toDrive == /\ Becomes(o, [deviceOp[o] EXCEPT !.at = "drive.pre",
                                  !.stage = IF deviceOp[o].kind = "act" THEN "sent" ELSE @])
                 /\ UNCHANGED <<instance, reservation>>
  IN \/ BeforeRequest(o, "list.pre", "list") \/ Reads(o, "list", "list.post")
     \/ AfterRequest(o, "list.post", toDrive)

\* A navigation is acknowledged by the browser; its load may fail after that.  One
\* that timed out may still arrive.
Navigate(o) ==
  /\ Is(o, "drive") /\ deviceOp[o].kind = "act" /\ PhoneRests /\ UNCHANGED forwardVars
  /\ LET landed == acted' = [acted EXCEPT ![o] = mapping] /\ UNCHANGED lateEffect
     IN \/ /\ ~Aborted(o) /\ mapping # "none" /\ landed /\ NoDeviceFault
           /\ Becomes(o, [deviceOp[o] EXCEPT !.at = "drive.post", !.stage = "acknowledged"])
           /\ UNCHANGED <<instance, reservation>>
        \/ /\ mapping # "none" /\ MayRefuse(o) /\ landed
           /\ \E error \in IF Aborted(o) THEN {"plain"} ELSE {"plain", "timeout"} :
                FailsAs(o, error, "acknowledged")
        \/ /\ mapping # "none" /\ MayRefuse(o) /\ lateEffect' = lateEffect \cup {o}
           /\ FailsAs(o, IF Aborted(o) THEN "plain" ELSE "timeout", "sent") /\ UNCHANGED acted
        \/ mapping = "none" /\ Fails(o, "plain") /\ NoDeviceFault /\ UNCHANGED effectVars

\* A target is opened by a command to the device, and then looked for in the list.
OpenTarget(o) ==
  /\ Is(o, "drive") /\ deviceOp[o].kind = "open" /\ PhoneRests /\ UNCHANGED <<forwardVars, lateEffect>>
  /\ \/ ~Aborted(o) /\ mapping # "none" /\ phone.is = "there" /\ NoDeviceFault
        /\ acted' = [acted EXCEPT ![o] = "ours"] /\ Then(o, "drive.post")
     \/ /\ acted' \in {acted, [acted EXCEPT ![o] = IF phone.is = "there" THEN "ours" ELSE @]}
        /\ IF mapping = "none" \/ phone.is = "gone" THEN NoDeviceFault /\ Fails(o, "plain")
           ELSE Broken(o)

\* The result must name the reference that was asked for.
NamesTheReference(o) == deviceOp[o].kind = "read" \/ Current(o)
Results(o) ==
  IF NamesTheReference(o) THEN Succeeds(o, reservation.state) /\ UNCHANGED instance
  ELSE FailsAs(o, "plain", "reconciled")

Drive(o) ==
  LET next == IF deviceOp[o].kind = "read" THEN Results(o)
              ELSE /\ Becomes(o, [deviceOp[o] EXCEPT !.at = "check.pre", !.stage = "acknowledged"])
                   /\ UNCHANGED <<instance, reservation>>
  IN \/ BeforeRequest(o, "drive.pre", "drive") \/ Navigate(o) \/ OpenTarget(o)
     \/ deviceOp[o].kind = "read" /\ Reads(o, "drive", "drive.post")
     \/ AfterRequest(o, "drive.post", next)
CheckTarget(o) ==
  \/ BeforeRequest(o, "check.pre", "check") \/ Reads(o, "check", "check.post")
  \/ AfterRequest(o, "check.post", Results(o))

-----------------------------------------------------------------------------
(* Inventories: a look that finds the device or the entry changed makes every *)
(* reference given before it stale.                                         *)

ListDevices ==
  /\ phone.seen # phone.is
  /\ phone' = [phone EXCEPT !.seen = phone.is]
  /\ instance' = IF phone.seen = "unknown" THEN instance ELSE NextInstance
  /\ UNCHANGED <<forwardVars, effectVars, recoveredRefs, reservation, deviceOp, boundVars>>
ListTargets ==
  /\ instance.state = "connected" /\ ~EntryIsOurs
  /\ instance' = NextInstance
  /\ UNCHANGED <<forwardVars, effectVars, phone, recoveredRefs, reservation, deviceOp, boundVars>>

DeviceNext ==
  \/ ForeignForward \/ PhoneMoves \/ CreateLandsLate \/ ListDevices \/ ListTargets
  \/ \E o \in DeviceOps :
       \/ EffectLandsLate(o) \/ (\E kind \in DeviceKinds : AdmitDeviceOp(o, kind)) \/ Cancel(o) \/ Abandon(o) \/ BeginDeviceOp(o)
       \/ deviceOp[o].kind = "connect"
            /\ \/ FindDevice(o) \/ PortIsVacant(o) \/ CreateForward(o) \/ ReconcileCreate(o)
               \/ AskVersion(o) \/ ConfirmForward(o) \/ VerifyConnected(o)
       \/ LookAtForward(o) \/ ActOnLook(o) \/ RemoveForward(o) \/ DropOwnership(o)
       \/ RecoverRemoval(o)
       \/ deviceOp[o].kind \in {"disconnect", "recover"} /\ VerifyRemoved(o)
       \/ ListTarget(o) \/ Drive(o) \/ CheckTarget(o)

DeviceSpec == DeviceInit /\ [][DeviceNext]_deviceVars

-----------------------------------------------------------------------------
(* Properties.                                                             *)

DeviceTypeOK ==
  /\ mapping \in {"none", "ours", "foreign"} /\ ownership \in {"none", "owned", "attempted"}
  /\ reservation.state \in {"none", "connecting", "active", "quarantined"}
  /\ reservation.users \subseteq DeviceOps
  /\ instance.state \in {"disconnected", "connected", "degraded"}
  /\ \A o \in DeviceOps : deviceOp[o].lease \in {"none", "held", "released", "quarantined"}

\* Where the runtime believes that it holds no browser, no forward of its own is left
\* or still to come, whatever commands failed, timed out or were replaced meanwhile;
\* but an operation that nobody waits for any more may have lost the ownership.
NoForwardIsForgotten ==
  reservation.state = "none" => trampled \/ (mapping # "ours" /\ ~lateCreate)

\* An operation that succeeded had its effect on the browser of the device and never on
\* that of another program which took the port; where the ownership was lost so, the
\* entry that was taken may have come back by itself before it was looked at again.  One
\* that says nothing was dispatched had no effect, and one that gives its resources back
\* has none still to come.
EffectsAreTold ==
  \A o \in DeviceOps :
    /\ deviceOp[o].result = "ok" => acted[o] # "foreign" \/ trampled
    /\ deviceOp[o].result = "failed" /\ deviceOp[o].stage = "not-sent" => acted[o] = "no"
    /\ deviceOp[o].lease = "released" => o \notin lateEffect

DeviceIsTrue == NoForwardIsForgotten /\ EffectsAreTold
=============================================================================
