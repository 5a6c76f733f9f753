--------------------------- MODULE LegacyRetirement ---------------------------
(***************************************************************************)
(* Retirement of the services of the previous installation                 *)
(* (scripts/legacy-services.ts): a plan names the exact processes that      *)
(* listen on the old ports; its execution checks them again, pauses all of  *)
(* them, waits until their input helpers have ended, terminates them and    *)
(* lets them run into their end.  A process is known by its pid and start   *)
(* time, and every look at it and every signal is a command of its own:     *)
(* between two of them it may end and another may take its pid.            *)
(*                                                                         *)
(* Service s is the service of one old port; services are numbered in the   *)
(* order in which the coordinator takes them.                              *)
(***************************************************************************)
EXTENDS Naturals

CONSTANTS
  LegacyServices,   \* number of old ports
  MaxLegacyFaults,  \* commands that fail
  MaxLegacyMoves    \* moves of the world outside

VARIABLES
  legacy,       \* the process under the planned pid of each port, its child
  elsewhere,    \* another process listens on the port
  plan,         \* the plan's entry for each port
  retire,       \* the coordinator
  paused,       \* targets whose stop was confirmed
  termed,       \* targets whose termination was sent
  exited,       \* of those, the ones seen gone
  unsure,       \* history: targets whose stop or continuation was not confirmed
  strayed,      \* history: a stop or termination that reached another process
  legacyFaults, legacyMoves

retireVars == <<plan, retire, paused, termed, exited, unsure, strayed>>
legacyVars == <<legacy, elsewhere, retireVars, legacyFaults, legacyMoves>>

Ports == 1..LegacyServices
Service == [kind |-> "service", inc |-> 1, state |-> "running", ending |-> FALSE, child |-> "none"]
NoProcess == [kind |-> "none", inc |-> 0, state |-> "gone", ending |-> FALSE, child |-> "none"]

\* The coordinator walks over the ports in each of its passes.
At(at) == [at |-> at, next |-> 1, step |-> "idle", result |-> "none", after |-> "none",
           caught |-> FALSE]

LegacyInit ==
  /\ legacy \in [Ports -> {Service, NoProcess}]
  /\ elsewhere = [s \in Ports |-> FALSE]
  /\ plan = [s \in Ports |-> "unread"]
  /\ retire = At("plan")
  /\ paused = {} /\ termed = {} /\ exited = {} /\ unsure = {} /\ strayed = FALSE
  /\ legacyFaults = 0 /\ legacyMoves = 0

LegacyFault == legacyFaults < MaxLegacyFaults /\ legacyFaults' = legacyFaults + 1
Calm == UNCHANGED <<legacy, elsewhere, legacyMoves>>

-----------------------------------------------------------------------------
(* The world.  A stopped process neither ends by itself nor starts a child;  *)
(* one that was told to end does so once it runs again.                     *)

Moves(s, p) ==
  /\ legacyMoves < MaxLegacyMoves /\ legacyMoves' = legacyMoves + 1
  /\ legacy' = [legacy EXCEPT ![s] = p]
  /\ UNCHANGED <<retireVars, legacyFaults>>

StartsChild(s) ==
  /\ legacy[s].kind = "service" /\ legacy[s].state = "running" /\ legacy[s].child = "none"
  /\ \E child \in {"helper", "foreign"} : Moves(s, [legacy[s] EXCEPT !.child = child])
  /\ UNCHANGED elsewhere
ChildEnds(s) ==
  /\ legacy[s].child # "none"
  /\ legacy' = [legacy EXCEPT ![s].child = "none"]
  /\ UNCHANGED <<elsewhere, retireVars, legacyFaults, legacyMoves>>
ServiceEnds(s) ==
  /\ legacy[s].kind = "service" /\ legacy[s].state = "running"
  /\ Moves(s, [legacy[s] EXCEPT !.state = "gone", !.child = "none"])
  /\ UNCHANGED elsewhere
\* Killed from outside, also while it is stopped.
PidIsReused(s) ==
  /\ legacy[s].kind = "service"
  /\ Moves(s, [kind |-> "stranger", inc |-> 2, state |-> "running", ending |-> FALSE,
               child |-> "none"])
  /\ UNCHANGED elsewhere
EndsAsTold(s) ==
  /\ legacy[s].ending /\ legacy[s].state = "running"
  /\ legacy' = [legacy EXCEPT ![s].state = "gone", ![s].child = "none"]
  /\ UNCHANGED <<elsewhere, retireVars, legacyFaults, legacyMoves>>
StartsElsewhere(s) ==
  /\ ~elsewhere[s] /\ legacy[s].state = "gone"
  /\ elsewhere' = [elsewhere EXCEPT ![s] = TRUE]
  /\ Moves(s, legacy[s])

-----------------------------------------------------------------------------
(* A look at a process: the planned one in the planned incarnation, or not.  *)

SameIncarnation(s) == legacy[s].kind = "service" /\ legacy[s].state # "gone"
Listens(s) == SameIncarnation(s) \/ elsewhere[s]

Planned == {s \in Ports : plan[s] = "target"}
Finish(result) == [At("done") EXCEPT !.result = result]
ResumeThen(result) == [At("resume") EXCEPT !.after = result]

Follows(at) ==
  CASE at = "plan" -> At("planned")
    [] at = "absent" -> At("check")
    [] at = "check" -> At("stop")
    [] at = "stop" -> At("validate")
    [] at = "validate" -> At("helpers")
    [] at = "term" -> ResumeThen("exits")
    [] at = "resume" -> IF retire.after = "exits" THEN At("exits") ELSE Finish(retire.after)

GoOn ==
  retire' = IF retire.next < LegacyServices
            THEN [retire EXCEPT !.next = @ + 1, !.step = "idle"]
            ELSE Follows(retire.at)

\* An exception: before the first stop the execution is rejected; after it all that
\* was paused is resumed, and an exception in that is the end.
Throws ==
  retire' = CASE retire.at \in {"plan", "planned", "absent", "check"} -> Finish("rejected")
              [] retire.caught -> Finish("partial")
              [] OTHER -> [ResumeThen("partial") EXCEPT !.caught = TRUE]

\* A stop that was given before is not undone by it, nor is anything by a resume that
\* is itself the answer to an exception.
CommandFails ==
  /\ retire.at \notin {"planned", "done"} /\ retire.step # "looked"
  /\ LegacyFault /\ Throws /\ Calm
  /\ unsure' = CASE retire.caught -> unsure \cup paused
                 [] retire.at = "stop" /\ retire.step # "idle" -> unsure \cup {retire.next}
                 [] OTHER -> unsure
  /\ UNCHANGED <<plan, paused, termed, exited, strayed>>

-----------------------------------------------------------------------------
(* The plan and the checks before the first signal.                         *)

PlanService ==
  /\ retire.at = "plan"
  /\ LET s == retire.next
         entry == IF ~Listens(s) THEN "absent"
                  ELSE IF SameIncarnation(s) /\ ~elsewhere[s] /\ legacy[s].child # "foreign"
                          /\ legacy[s].state = "running"
                       THEN "target" ELSE "refused"
     IN plan' = [plan EXCEPT ![s] = entry]
  /\ GoOn /\ Calm
  /\ UNCHANGED <<paused, termed, exited, unsure, strayed, legacyFaults>>

\* The root, the executable or a changed plan may refuse the execution.
ExecutePlan ==
  /\ retire.at = "planned"
  /\ retire' \in IF \E s \in Ports : plan[s] = "refused" THEN {Finish("blocked")}
                 ELSE {At("absent"), Finish("stale")}
  /\ Calm
  /\ UNCHANGED <<plan, paused, termed, exited, unsure, strayed, legacyFaults>>

ListenerAppeared(s) == plan[s] = "absent" /\ Listens(s)
AsPlanned(s) == SameIncarnation(s) /\ ~elsewhere[s] /\ legacy[s].state = "running"

CheckService ==
  /\ retire.at \in {"absent", "check"}
  /\ LET s == retire.next
         stale == IF retire.at = "absent" THEN ListenerAppeared(s)
                  ELSE s \in Planned /\ ~AsPlanned(s)
     IN IF stale THEN retire' = Finish("stale") ELSE GoOn
  /\ Calm
  /\ UNCHANGED <<plan, paused, termed, exited, unsure, strayed, legacyFaults>>

-----------------------------------------------------------------------------
(* Signals.  Look, kill, look again.                                        *)

KindOf == CASE retire.at = "stop" -> "STOP" [] retire.at = "term" -> "TERM" [] OTHER -> "CONT"

\* Whom the pass is about; the resume skips what is no longer stopped.
Signals(s) ==
  CASE retire.at = "stop" -> s \in Planned
    [] retire.at = "term" -> s \in paused
    [] retire.at = "resume" -> s \in paused /\ SameIncarnation(s) /\ legacy[s].state = "stopped"

\* What follows a signal that was sent, one whose target was not the planned process,
\* and one that was not confirmed.  A resume goes on to the next in any case.
SignalSent(s) ==
  /\ paused' = IF retire.at = "stop" THEN paused \cup {s} ELSE paused
  /\ termed' = IF retire.at = "term" THEN termed \cup {s} ELSE termed
  /\ GoOn
SignalFailed(result) ==
  /\ IF retire.at = "resume" THEN GoOn ELSE retire' = ResumeThen(result)
  /\ UNCHANGED <<paused, termed>>

PassOver ==
  /\ retire.at \in {"stop", "term", "resume"} /\ retire.step = "idle" /\ ~Signals(retire.next)
  /\ GoOn /\ Calm
  /\ UNCHANGED <<plan, paused, termed, exited, unsure, strayed, legacyFaults>>

LookFirst ==
  LET s == retire.next
  IN /\ retire.at \in {"stop", "term", "resume"} /\ retire.step = "idle" /\ Signals(s)
     /\ Calm /\ UNCHANGED <<plan, exited, unsure, strayed, legacyFaults>>
     /\ IF SameIncarnation(s)
        THEN retire' = [retire EXCEPT !.step = "looked"] /\ UNCHANGED <<paused, termed>>
        ELSE SignalFailed("stale")

Struck(p) ==
  CASE p.state = "gone" -> p
    [] KindOf = "STOP" -> [p EXCEPT !.state = "stopped"]
    [] KindOf = "CONT" -> [p EXCEPT !.state = "running"]
    [] OTHER -> [p EXCEPT !.ending = TRUE]

\* The signal goes to whoever has the pid now; the command may fail.
Kill ==
  LET s == retire.next
  IN /\ retire.step = "looked"
     /\ UNCHANGED <<elsewhere, legacyMoves, plan, paused, termed, exited, unsure>>
     /\ \/ /\ legacy' = [legacy EXCEPT ![s] = Struck(@)]
           /\ retire' = [retire EXCEPT !.step = IF legacy[s].state = "gone" THEN "refused" ELSE "killed"]
           /\ strayed' = (strayed \/ (legacy[s].kind = "stranger" /\ KindOf # "CONT"))
           /\ UNCHANGED legacyFaults
        \/ /\ LegacyFault
           /\ retire' = [retire EXCEPT !.step = "refused"]
           /\ UNCHANGED <<legacy, strayed>>

\* A process that stops or continues may not show it at once.
Shows(s) ==
  CASE KindOf = "STOP" -> legacy[s].state = "stopped"
    [] KindOf = "CONT" -> legacy[s].state \in {"running", "gone"}
    [] OTHER -> TRUE
LookAfterSignal ==
  LET s == retire.next
  IN /\ retire.step \in {"killed", "refused"}
     /\ Calm /\ UNCHANGED <<plan, exited, strayed>>
     /\ \/ /\ legacy[s].kind = "stranger" \/ (retire.step = "refused" /\ legacy[s].state = "gone")
           /\ SignalFailed("stale") /\ UNCHANGED <<unsure, legacyFaults>>
        \/ /\ legacy[s].kind # "stranger" /\ retire.step = "killed" /\ Shows(s)
           /\ SignalSent(s) /\ UNCHANGED <<unsure, legacyFaults>>
        \/ /\ legacy[s].kind # "stranger"
           /\ \/ retire.step = "refused" /\ legacy[s].state # "gone" /\ UNCHANGED legacyFaults
              \/ retire.step = "killed" /\ ~Shows(s) /\ UNCHANGED legacyFaults
              \/ retire.step = "killed" /\ KindOf # "TERM" /\ LegacyFault
           /\ SignalFailed("partial")
           /\ unsure' = IF KindOf = "TERM" THEN unsure ELSE unsure \cup {s}

-----------------------------------------------------------------------------
(* Between the stop and the termination.                                    *)

ValidateStopped ==
  LET s == retire.next
      valid == SameIncarnation(s) /\ legacy[s].state = "stopped" /\ legacy[s].child # "foreign"
  IN /\ retire.at = "validate"
     /\ IF s \in paused /\ ~valid THEN retire' = ResumeThen("blocked") ELSE GoOn
     /\ Calm
     /\ UNCHANGED <<plan, paused, termed, exited, unsure, strayed, legacyFaults>>

Descendants == {legacy[s].child : s \in paused} \ {"none"}
MayTerminateAtDeadline == TRUE  \* mutant
MayTerminate == Descendants = {}

\* Poll until the helpers have ended; a foreign child or the deadline ends the wait.
WaitForHelpers ==
  /\ retire.at = "helpers"
  /\ \/ MayTerminate /\ retire' = At("term")
     \/ ~MayTerminate /\ retire' = ResumeThen("blocked")
  /\ Calm
  /\ UNCHANGED <<plan, paused, termed, exited, unsure, strayed, legacyFaults>>

SeesExit ==
  /\ retire.at = "exits"
  /\ \E s \in termed \ exited : ~SameIncarnation(s) /\ exited' = exited \cup {s}
  /\ Calm
  /\ UNCHANGED <<plan, retire, paused, termed, unsure, strayed, legacyFaults>>

\* All have ended, or the deadline has passed.
ExecutionEnds ==
  /\ retire.at = "exits"
  /\ retire' = Finish(IF termed = exited THEN "retired" ELSE "partial")
  /\ Calm
  /\ UNCHANGED <<plan, paused, termed, exited, unsure, strayed, legacyFaults>>

LegacyNext ==
  \/ PlanService \/ ExecutePlan \/ CheckService \/ PassOver \/ LookFirst \/ Kill \/ LookAfterSignal
  \/ ValidateStopped \/ WaitForHelpers \/ SeesExit \/ ExecutionEnds \/ CommandFails
  \/ \E s \in Ports :
       StartsChild(s) \/ ChildEnds(s) \/ ServiceEnds(s) \/ PidIsReused(s) \/ EndsAsTold(s)
         \/ StartsElsewhere(s)

LegacySpec == LegacyInit /\ [][LegacyNext]_legacyVars

-----------------------------------------------------------------------------
(* Properties.                                                             *)

LegacyTypeOK ==
  /\ \A s \in Ports : legacy[s].state \in {"running", "stopped", "gone"}
  /\ retire.result \in {"none", "retired", "blocked", "stale", "partial", "rejected"}
  /\ retire.next \in Ports
  /\ exited \subseteq termed /\ termed \subseteq paused /\ paused \subseteq Planned

\* A service is told to end only while it and every other target is held in its stop
\* or has left, and none of its input helpers is left to hold a key down.  Whatever
\* ends the execution, no service stays stopped, but one whose signal was not
\* confirmed.  It is retired only if every target is gone, and never when a stop or a
\* termination has reached another process under a target's pid.
RetiresSafely ==
  /\ \A s \in Ports : legacy'[s].ending /\ ~legacy[s].ending /\ legacy[s].kind = "service" =>
       legacy[s].state = "stopped" /\ legacy[s].child = "none" /\ Planned \subseteq paused
  /\ retire'.at = "done" =>
       \A s \in Ports : legacy'[s].kind = "service" /\ legacy'[s].state = "stopped" =>
         s \in unsure'
  /\ retire'.result = "retired" =>
       ~strayed' /\ \A s \in Planned : ~SameIncarnation(s)'
=============================================================================
