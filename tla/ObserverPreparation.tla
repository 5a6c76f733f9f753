------------------------- MODULE ObserverPreparation -------------------------
(***************************************************************************)
(* How the runtime host gets an observer from its helper (the background   *)
(* preparation of host.ts and native-observer-binding.ts): the old binding *)
(* is closed, up to three attempts are made, each under its own deadlines, *)
(* and whatever may have been left behind must be known before the next.   *)
(* The helper is the one HelperObserver describes, by what it answers:     *)
(* "clean" is its word that no observer is left.                           *)
(***************************************************************************)
EXTENDS Naturals

CONSTANTS
  PrepareAttempts,   \* OBSERVER_PREPARE_ATTEMPTS
  MaxPreparations,   \* bound: preparations that begin
  MaxSilences        \* bound: answers that come too late, and aborts

ASSUME PreparationAssumption ==
  {PrepareAttempts, MaxPreparations, MaxSilences} \subseteq Nat \ {0}

VARIABLES
  preparing,       \* where the background preparation is
  attempt,         \* which attempt
  binding,         \* the observer the host is bound to, 0 when none
  observerState,   \* "unavailable", "preparing", "ready"
  cleanupUnknown,  \* observerCleanupUnknown
  nativeFailed,    \* nativeError
  lives,           \* observers that live in the helper
  asked,           \* the prepare on its way: "none", "sent", or its answer
  lateStop,        \* the observer of a late answer that is to be stopped, 0 when none
  begun, named, silences

preparationVars ==
  <<preparing, attempt, binding, observerState, cleanupUnknown, nativeFailed, lives, asked,
    lateStop, begun, named, silences>>

Observers == 1..(PrepareAttempts * MaxPreparations)

PreparationTypeOK ==
  /\ preparing \in {"idle", "closing", "attempting", "waiting", "stopping", "covering", "ending"}
  /\ attempt \in 0..PrepareAttempts /\ binding \in {0} \cup Observers
  /\ observerState \in {"unavailable", "preparing", "ready"}
  /\ {cleanupUnknown, nativeFailed} \subseteq BOOLEAN /\ lives \subseteq Observers
  /\ asked \in {"none", "sent", "ok", "retry", "clean", "unknown"}
  /\ lateStop \in {0} \cup Observers

PreparationInit ==
  /\ preparing = "idle" /\ attempt = 0 /\ binding = 0 /\ observerState = "unavailable"
  /\ cleanupUnknown = FALSE /\ nativeFailed = FALSE /\ lives = {} /\ asked = "none"
  /\ lateStop = 0 /\ begun = 0 /\ named = 0 /\ silences = 0

helperSide == <<nativeFailed, lives, asked, lateStop, named>>

-----------------------------------------------------------------------------
(* The helper. *)

\* prepare: refused while an observer is known; else it succeeds, fails with its
\* disposition, or does not know what it left behind.
HelperPrepares ==
  /\ asked = "sent" /\ ~nativeFailed
  /\ IF lives # {} THEN asked' = "unknown" /\ UNCHANGED lives
     ELSE \/ asked' = "ok" /\ lives' = {named}
          \/ asked' \in {"retry", "clean"} /\ UNCHANGED lives
          \/ asked' = "unknown" /\ lives' \in {{}, {named}}
  /\ UNCHANGED <<preparing, attempt, binding, observerState, cleanupUnknown, nativeFailed,
                 lateStop, begun, named, silences>>

\* The session with the helper is lost, and the helper with it.
HelperIsLost ==
  /\ ~nativeFailed /\ nativeFailed' = TRUE /\ lives' = {} /\ asked' = "none" /\ lateStop' = 0
  /\ observerState' = "unavailable"
  /\ UNCHANGED <<preparing, attempt, binding, cleanupUnknown, begun, named, silences>>

\* The observer of a late answer is stopped, or nobody hears that it was not.
LateStop(stopped) ==
  /\ lateStop # 0 /\ lateStop' = 0
  /\ lives' = IF stopped THEN lives \ {lateStop} ELSE lives
  /\ UNCHANGED <<preparing, attempt, binding, observerState, cleanupUnknown, nativeFailed,
                 asked, begun, named, silences>>

\* A gap in the events makes the observer unavailable, and a preparation may follow.
\* One told just before the preparation ends does not keep it from ending well.
GapIsTold ==
  /\ observerState = "ready" \/ (preparing = "covering" /\ observerState = "preparing")
  /\ observerState' = "unavailable"
  /\ UNCHANGED <<preparing, attempt, binding, cleanupUnknown, helperSide, begun, silences>>

-----------------------------------------------------------------------------
(* The preparation. *)

\* beginBackendPreparation; the binding before is closed first.
Begin ==
  /\ preparing = "idle" /\ ~nativeFailed /\ ~cleanupUnknown /\ observerState # "ready"
  /\ begun < MaxPreparations /\ begun' = begun + 1
  /\ observerState' = "preparing" /\ attempt' = 1
  /\ preparing' = IF binding # 0 THEN "closing" ELSE "attempting"
  /\ UNCHANGED <<binding, cleanupUnknown, helperSide, silences>>

\* The stop of binding.close: confirmed, or not in time although it may have happened.
\* An observer the helper no longer knows is refused.
StopOutcome(o, confirmed) ==
  /\ confirmed => o \in lives
  /\ \/ lives' = lives \ {o}
     \/ ~confirmed /\ lives' = lives

CloseBinding(confirmed) ==
  /\ preparing = "closing" /\ ~nativeFailed /\ StopOutcome(binding, confirmed)
  /\ IF confirmed THEN binding' = 0 /\ preparing' = "attempting"
     ELSE preparing' = "ending" /\ UNCHANGED binding
  /\ UNCHANGED <<attempt, observerState, cleanupUnknown, nativeFailed, asked, lateStop, begun,
                 named, silences>>

\* The attempt: permissions and generation are checked, then prepare is sent.
SendPrepare ==
  /\ preparing = "attempting" /\ ~nativeFailed /\ asked = "none"
  /\ asked' = "sent" /\ named' = named + 1 /\ preparing' = "waiting"
  /\ UNCHANGED <<attempt, binding, observerState, cleanupUnknown, nativeFailed, lives, lateStop,
                 begun, silences>>

\* An abort, a permission that is gone, the pre-check's deadline: nothing was sent.
AttemptRefused ==
  /\ preparing = "attempting" /\ preparing' = "ending"
  /\ UNCHANGED <<attempt, binding, observerState, cleanupUnknown, helperSide, begun, silences>>

RetriesAnyway ==   \* mutant: whatever may be left behind, there is another attempt
  /\ preparing = "waiting" /\ asked \in {"retry", "clean", "unknown"} /\ asked' = "none"
  /\ attempt < PrepareAttempts /\ attempt' = attempt + 1 /\ preparing' = "attempting"
  /\ UNCHANGED <<binding, cleanupUnknown, observerState, nativeFailed, lives, lateStop, begun,
                 named, silences>>

\* The answer came: only a failure that is transient and clean allows another attempt;
\* a clean failure is confirmed, any other is not.
Failed(clean) == preparing' = "ending" /\ cleanupUnknown' = (cleanupUnknown \/ ~clean)
AnswerArrives ==
  /\ preparing = "waiting" /\ asked \notin {"none", "sent"} /\ asked' = "none"
  /\ \/ asked = "ok" /\ preparing' = "covering" /\ binding' = named
        /\ UNCHANGED <<attempt, cleanupUnknown>>
     \/ /\ asked = "retry" /\ attempt < PrepareAttempts
        /\ preparing' = "attempting" /\ attempt' = attempt + 1
        /\ UNCHANGED <<binding, cleanupUnknown>>
     \/ /\ asked = "retry" /\ attempt = PrepareAttempts
        /\ Failed(TRUE) /\ UNCHANGED <<attempt, binding>>
     \/ asked \in {"clean", "unknown"} /\ Failed(asked = "clean") /\ UNCHANGED <<attempt, binding>>
  /\ UNCHANGED <<observerState, nativeFailed, lives, lateStop, begun, named, silences>>

\* The deadline of the attempt, or the caller's abort, before the answer: the observer
\* of an answer that comes late is stopped in the background.
AnswerTooLate ==
  /\ preparing = "waiting" /\ silences < MaxSilences /\ silences' = silences + 1
  /\ Failed(FALSE)
  /\ UNCHANGED <<attempt, binding, observerState, helperSide, begun>>
LateAnswer ==
  /\ preparing # "waiting" /\ asked \notin {"none", "sent"} /\ asked' = "none"
  /\ lateStop' = IF asked = "ok" THEN named ELSE 0
  /\ UNCHANGED <<preparing, attempt, binding, observerState, cleanupUnknown, nativeFailed,
                 lives, begun, named, silences>>

\* Aborted with the answer in hand: the observer is stopped before the failure is told.
AbortedWithAnswer ==
  /\ preparing = "waiting" /\ asked = "ok" /\ silences < MaxSilences /\ silences' = silences + 1
  /\ asked' = "none" /\ preparing' = "stopping"
  /\ UNCHANGED <<attempt, binding, observerState, cleanupUnknown, nativeFailed, lives, lateStop,
                 begun, named>>
StopAborted(confirmed) ==
  /\ preparing = "stopping" /\ StopOutcome(named, confirmed) /\ Failed(confirmed)
  /\ UNCHANGED <<attempt, binding, observerState, nativeFailed, asked, lateStop, begun, named, silences>>

\* Coverage is asked for and the view guard started; then the observer is ready.
CoverageConfirmed ==
  /\ preparing = "covering" /\ ~nativeFailed
  /\ preparing' = "idle" /\ observerState' = "ready"
  /\ UNCHANGED <<attempt, binding, cleanupUnknown, helperSide, begun, silences>>
CoverageRefused ==
  /\ preparing = "covering" /\ preparing' = "ending"
  /\ UNCHANGED <<attempt, binding, observerState, cleanupUnknown, helperSide, begun, silences>>

\* The failure of a preparation: a binding that is left is closed, or kept to be closed
\* by the next one; a session that is lost confirms nothing.
Ending(confirmed) ==
  /\ preparing = "ending" /\ preparing' = "idle" /\ observerState' = "unavailable"
  /\ IF binding = 0 \/ nativeFailed THEN confirmed /\ UNCHANGED <<binding, lives>>
     ELSE StopOutcome(binding, confirmed) /\ binding' = IF confirmed THEN 0 ELSE binding
  /\ UNCHANGED <<attempt, cleanupUnknown, nativeFailed, asked, lateStop, begun, named, silences>>

\* Whatever the preparation waits for ends with the session.
LostWhilePreparing ==
  /\ nativeFailed /\ preparing \in {"closing", "attempting", "waiting", "covering"}
  /\ preparing' = "ending"
  /\ UNCHANGED <<attempt, binding, observerState, cleanupUnknown, helperSide, begun, silences>>

PreparationNext ==
  \/ HelperPrepares \/ HelperIsLost \/ GapIsTold \/ Begin \/ SendPrepare \/ AttemptRefused
  \/ AnswerArrives \/ AnswerTooLate \/ LateAnswer \/ AbortedWithAnswer
  \/ CoverageConfirmed \/ CoverageRefused \/ LostWhilePreparing
  \/ \E yes \in BOOLEAN : LateStop(yes) \/ CloseBinding(yes) \/ StopAborted(yes) \/ Ending(yes)

-----------------------------------------------------------------------------
(* Properties. *)

\* A prepare is sent only when no observer of an earlier one lives in the helper or may
\* still come to life there: not after an answer that came too late, a stop nobody
\* confirmed, or a failure of unknown disposition.  And the observer is called ready only
\* while the one the host is bound to lives, and no other does.
PreparesSafely ==
  /\ asked # "sent" /\ asked' = "sent" => lives = {} /\ lateStop = 0
  /\ observerState' = "ready" => lives' = {binding'}
=============================================================================
