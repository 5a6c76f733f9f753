---------------------------- MODULE InstallDoctor ----------------------------
(***************************************************************************)
(* runDoctor (scripts/runtime-install.ts): the installer polls the runtime *)
(* it has just loaded until it is ready.  Three deadlines take turns: one  *)
(* for an answer, one for the permissions a person has to grant, and one   *)
(* for the preparation of the observer.  Time is counted in polls.         *)
(***************************************************************************)
EXTENDS Naturals

CONSTANTS
  ReadinessPolls,   \* timeoutMs
  PermissionPolls,  \* permissionWaitMs
  ObserverPolls     \* OBSERVER_PREPARATION_MAX_MS and its transport margin

ASSUME DoctorAssumption ==
  ReadinessPolls \in Nat \ {0} /\ PermissionPolls \in Nat \ {0} /\ ObserverPolls \in Nat \ {0}

VARIABLES
  doctorNow, doctorResult,
  readinessDeadline, permissionDeadline, observerDeadline,  \* 0: not set yet
  permissionPending,  \* previousPermissionStatePending
  observerActive      \* observerPreparationActive

doctorVars == <<doctorNow, doctorResult, readinessDeadline, permissionDeadline,
                observerDeadline, permissionPending, observerActive>>
deadlineVars == <<permissionDeadline, observerDeadline, permissionPending, observerActive>>

\* Time starts at 1: a deadline of 0 is an undefined one.
DoctorInit ==
  /\ doctorNow = 1 /\ doctorResult = "polling" /\ readinessDeadline = 1 + ReadinessPolls
  /\ permissionDeadline = 0 /\ observerDeadline = 0
  /\ permissionPending = FALSE /\ observerActive = FALSE

\* The deadline that counts for the next poll.
Deadline ==
  IF permissionPending THEN permissionDeadline
  ELSE IF observerActive THEN observerDeadline ELSE readinessDeadline

Polling == doctorResult = "polling" /\ doctorNow < Deadline
PollAgain == doctorNow' = doctorNow + 1 /\ UNCHANGED doctorResult
Ends(result) == doctorResult' = result /\ UNCHANGED doctorNow

DoctorExpires ==
  /\ doctorResult = "polling" /\ doctorNow >= Deadline /\ Ends("expired")
  /\ UNCHANGED <<readinessDeadline, deadlineVars>>

\* No answer, or one that is not JSON.
DoctorSilent == Polling /\ PollAgain /\ UNCHANGED <<readinessDeadline, deadlineVars>>

\* Another build, another owner of the permissions, permissions that failed, or
\* any other answer that polling cannot mend.
DoctorRefused == Polling /\ Ends("failed") /\ UNCHANGED <<readinessDeadline, deadlineVars>>

\* Mutant: the deadline is set anew whenever permissions are pending.
WaitAgain ==
  /\ Polling /\ permissionPending' = TRUE
  /\ permissionDeadline' = doctorNow + PermissionPolls
  /\ PollAgain /\ UNCHANGED <<readinessDeadline, observerDeadline, observerActive>>

\* Permissions wait for the person; the deadline is set once.
PermissionsPending ==
  /\ Polling /\ permissionPending' = TRUE
  /\ permissionDeadline' =
       IF permissionDeadline = 0 THEN doctorNow + PermissionPolls ELSE permissionDeadline
  /\ IF doctorNow >= permissionDeadline' THEN Ends("expired") ELSE PollAgain
  /\ UNCHANGED <<readinessDeadline, observerDeadline, observerActive>>

\* Every other answer ends the wait for permissions and restarts the readiness
\* deadline.
PermissionsSettled ==
  /\ Polling /\ permissionPending' = FALSE /\ UNCHANGED permissionDeadline
  /\ readinessDeadline' =
       IF permissionPending THEN doctorNow + ReadinessPolls ELSE readinessDeadline

\* The observer reports its preparation; its own deadline may end the wait
\* earlier than the installer's.
ObserverPreparing ==
  /\ PermissionsSettled
  /\ observerDeadline' \in
       IF observerDeadline # 0 THEN {observerDeadline}
       ELSE {doctorNow + n : n \in 1..ObserverPolls}
  /\ observerActive' = TRUE
  /\ IF doctorNow >= observerDeadline' THEN Ends("expired") ELSE PollAgain

\* The observer prepares without a report, or is not ready yet; after a report
\* the former is an error.
ObserverNotReady ==
  /\ PermissionsSettled /\ UNCHANGED observerDeadline
  /\ \/ observerDeadline # 0 /\ Ends("failed") /\ UNCHANGED observerActive
     \/ observerActive' = FALSE /\ PollAgain

Ready ==
  /\ PermissionsSettled /\ observerActive' = FALSE /\ Ends("ready")
  /\ UNCHANGED observerDeadline

DoctorNext ==
  \/ DoctorExpires \/ DoctorSilent \/ DoctorRefused \/ PermissionsPending
  \/ ObserverPreparing \/ ObserverNotReady \/ Ready

-----------------------------------------------------------------------------
(* Properties. *)

\* However the runtime's answers alternate, with permissions that come and go
\* and an observer that prepares again, the installer polls no longer than the
\* three deadlines allow: no answer moves a deadline again and again.
DoctorIsBounded ==
  doctorNow <= 1 + 2 * ReadinessPolls + PermissionPolls + ObserverPolls
=============================================================================
