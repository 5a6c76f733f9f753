----------------------------- MODULE NativeSession -----------------------------
(***************************************************************************)
(* The runtime's session with one native helper (native/src/adapter.ts)    *)
(* and the change of helper (native/src/session-lifecycle.ts).             *)
(*                                                                         *)
(* A call is refused or sent by #exchange, answered by a packet, or given  *)
(* up at its deadline or by its caller's signal; then a tombstone waits    *)
(* for the late answer.  A mutation first asks two authorities and the     *)
(* session may be sealed or closed meanwhile.  Anything unexpected poisons *)
(* the session.  A call is sent once and its identifier is never reused;   *)
(* the content of frames, the handshake and the limits of 128 calls and    *)
(* 10000 identifiers are left out.                                         *)
(***************************************************************************)
EXTENDS Naturals, FiniteSets

CONSTANTS
  Exchanges,          \* the calls made of the session
  ExchangeKind,       \* "mutation", "read", "prepare" (of an observer) or "control" of each
  MaxSessionFaults    \* bound: a refused persist, a lost child, a failed send or stop

ASSUME SessionAssumption ==
  /\ ExchangeKind \in [Exchanges -> {"mutation", "read", "prepare", "control"}]
  /\ MaxSessionFaults \in Nat

VARIABLES
  exchanges,    \* where each call is
  authorizing,  \* calls whose authority is still working, waited for or not
  atHelper,     \* calls the helper has and has not answered
  tombstones,   \* #expired
  orphans,      \* observers started by a call that was given up, still to be stopped
  ledgerWrites, \* #ledgerWrites
  session,      \* #closed, #rotationSealed, #poisoned
  child,        \* the helper's process
  rotating,     \* where rotate is
  drained,      \* the answer of the drain was clean
  replaced,     \* createReplacement was called
  sessionFaults

callVars    == <<exchanges, authorizing, atHelper, tombstones, orphans>>
rotateVars  == <<rotating, drained, replaced>>
sessionVars == <<callVars, ledgerWrites, session, child, rotateVars, sessionFaults>>

-----------------------------------------------------------------------------
Waiting == {"granting", "viewing"}
Resting == {"no", "done", "quarantined"}

SessionInit ==
  /\ exchanges = [e \in Exchanges |-> "new"] /\ authorizing = {} /\ atHelper = {} /\ tombstones = {}
  /\ orphans = {} /\ ledgerWrites = 0
  /\ session = [closed |-> FALSE, sealed |-> FALSE, poisoned |-> FALSE]
  /\ child = "running" /\ rotating = "no" /\ drained = FALSE /\ replaced = FALSE /\ sessionFaults = 0

SessionTypeOK ==
  /\ exchanges \in [Exchanges -> Waiting \cup
                     {"done", "failed", "new", "granted", "admitted", "pending", "stopping"}]
  /\ authorizing \cup atHelper \cup tombstones \cup orphans \subseteq Exchanges
  /\ ledgerWrites \in 0..1 /\ session \in [closed : BOOLEAN, sealed : BOOLEAN, poisoned : BOOLEAN]
  /\ child \in {"running", "closing", "exited", "stuck"} /\ {drained, replaced} \subseteq BOOLEAN
  /\ rotating \in Resting \cup {"prepared", "sealed", "drained", "retained", "closing", "replacing"}

SessionFault == sessionFaults < MaxSessionFaults /\ sessionFaults' = sessionFaults + 1
NoSessionFault == UNCHANGED sessionFaults

Moved(e, at) == exchanges' = [exchanges EXCEPT ![e] = at]
\* #rejectPending
Rejected(calls) == [e \in Exchanges |-> IF calls[e] = "pending" THEN "failed" ELSE calls[e]]

Accepting == ~session.closed /\ ~session.sealed
\* Mutant: a call past its authorities is sent whatever happened meanwhile.
OnlyOpen(e) == ~session.closed
\* #exchange: what a sealed session still sends.
MaySend(e) == ~session.closed /\ (session.sealed => ExchangeKind[e] = "control")

\* #poison: the first one closes the session and the child's transport.
Poison(calls) ==
  IF session.closed THEN exchanges' = calls /\ UNCHANGED <<session, child>>
  ELSE /\ exchanges' = Rejected(calls)
       /\ session' = [session EXCEPT !.closed = TRUE, !.poisoned = TRUE]
       /\ child' = IF child = "running" THEN "closing" ELSE child

-----------------------------------------------------------------------------
(* A call. *)

\* A mutation asks for the durable grant first.
Call(e) ==
  /\ exchanges[e] = "new"
  /\ IF ExchangeKind[e] # "mutation" THEN Moved(e, "admitted") /\ UNCHANGED authorizing
     ELSE IF Accepting THEN Moved(e, "granting") /\ authorizing' = authorizing \cup {e}
     ELSE Moved(e, "failed") /\ UNCHANGED authorizing
  /\ UNCHANGED <<atHelper, tombstones, orphans, ledgerWrites, session, child, rotateVars>> /\ NoSessionFault

\* The authority answers; a caller that gave up does not hear it.
Authorized(e) ==
  /\ e \in authorizing /\ authorizing' = authorizing \ {e}
  /\ CASE exchanges[e] \notin Waiting -> UNCHANGED exchanges
       [] exchanges[e] \in Waiting /\ ~Accepting -> Moved(e, "failed")
       [] exchanges[e] = "granting" /\ Accepting -> Moved(e, "granted")
       [] OTHER -> Moved(e, "admitted")
  /\ UNCHANGED <<atHelper, tombstones, orphans, ledgerWrites, session, child, rotateVars>> /\ NoSessionFault

\* A mutation of the screen asks for its view admission next, others go on.
AskView(e) ==
  /\ exchanges[e] = "granted"
  /\ \/ ~Accepting /\ Moved(e, "failed") /\ UNCHANGED authorizing
     \/ Accepting /\ Moved(e, "viewing") /\ authorizing' = authorizing \cup {e}
     \/ Moved(e, "admitted") /\ UNCHANGED authorizing
  /\ UNCHANGED <<atHelper, tombstones, orphans, ledgerWrites, session, child, rotateVars>> /\ NoSessionFault

Exchange(e) ==
  /\ exchanges[e] = "admitted"
  /\ IF MaySend(e) THEN Moved(e, "pending") /\ atHelper' = atHelper \cup {e}
     ELSE Moved(e, "failed") /\ UNCHANGED atHelper
  /\ UNCHANGED <<authorizing, tombstones, orphans, ledgerWrites, session, child, rotateVars>> /\ NoSessionFault

\* transport.send fails: the frame may have reached the helper all the same.
SendFails(e) ==
  /\ exchanges[e] = "pending" /\ SessionFault /\ Moved(e, "failed")
  /\ atHelper' \in {atHelper, atHelper \ {e}}
  /\ UNCHANGED <<authorizing, tombstones, orphans, ledgerWrites, session, child, rotateVars>>

\* Mutant: an expired call leaves nothing behind.
NoTombstone(e) == UNCHANGED tombstones
Entomb(e) == tombstones' = tombstones \cup {e}

\* The deadline passes or the caller's signal fires.
GiveUp(e) ==
  /\ exchanges[e] \in Waiting \cup {"granted", "admitted", "pending"} /\ Moved(e, "failed")
  /\ IF exchanges[e] = "pending" THEN Entomb(e) ELSE UNCHANGED tombstones
  /\ UNCHANGED <<authorizing, atHelper, orphans, ledgerWrites, session, child, rotateVars>> /\ NoSessionFault

\* #acceptFrame: the answer of a call, awaited, late, or unexpected.
Answer(e) ==
  /\ e \in atHelper /\ child = "running" /\ atHelper' = atHelper \ {e}
  /\ CASE session.closed -> UNCHANGED <<exchanges, tombstones, orphans, session, child>>
       [] ~session.closed /\ exchanges[e] = "pending" ->
            \* a prepare's caller may fail its last checkpoint and must undo it
            /\ \E at \in {"done"} \cup (IF ExchangeKind[e] = "prepare" THEN {"stopping"} ELSE {}) : Moved(e, at)
            /\ orphans' = IF exchanges'[e] = "stopping" THEN orphans \cup {e} ELSE orphans
            /\ UNCHANGED <<tombstones, session, child>>
       [] ~session.closed /\ exchanges[e] # "pending" /\ e \in tombstones ->
            /\ tombstones' = tombstones \ {e}
            /\ orphans' = IF ExchangeKind[e] = "prepare" THEN orphans \cup {e} ELSE orphans
            /\ UNCHANGED <<exchanges, session, child>>
       [] OTHER -> Poison(exchanges) /\ UNCHANGED <<tombstones, orphans>>
  /\ UNCHANGED <<authorizing, ledgerWrites, rotateVars>> /\ NoSessionFault

\* Mutant: the abandoned observer is forgotten.
LeaveRunning(e) == UNCHANGED <<orphans, exchanges, session, child, sessionFaults>>

\* #stopOrphanObserver: an observer nobody knows is stopped, or the session poisoned.
StopOrphan(e) ==
  LET told == [exchanges EXCEPT ![e] = IF @ = "stopping" THEN "failed" ELSE @] IN
  \/ ~session.closed /\ exchanges' = told /\ orphans' = orphans \ {e}
     /\ UNCHANGED <<session, child>> /\ NoSessionFault
  \/ session.closed /\ exchanges' = told /\ UNCHANGED <<orphans, session, child>> /\ NoSessionFault
     /\ exchanges[e] = "stopping"
  \/ ~session.closed /\ SessionFault /\ Poison(told) /\ UNCHANGED orphans

Undo(e) ==
  /\ e \in orphans /\ StopOrphan(e)
  /\ UNCHANGED <<authorizing, atHelper, tombstones, ledgerWrites, rotateVars>>

-----------------------------------------------------------------------------
(* The helper's own frames, and its end. *)

\* A mutation at work asks for its ledger to be persisted.
PersistAsked ==
  /\ child = "running" /\ ~session.closed /\ ledgerWrites = 0
  /\ \E e \in atHelper : ExchangeKind[e] = "mutation"
  /\ ledgerWrites' = 1
  /\ UNCHANGED <<callVars, session, child, rotateVars>> /\ NoSessionFault

PersistEnds ==
  /\ ledgerWrites = 1 /\ ledgerWrites' = 0
  /\ \/ UNCHANGED <<exchanges, session, child>> /\ NoSessionFault
     \/ SessionFault /\ Poison(exchanges)
  /\ UNCHANGED <<authorizing, atHelper, tombstones, orphans, rotateVars>>

\* The reader meets the end of the stream before close.
ChildLost ==
  /\ child = "running" /\ SessionFault /\ ~session.closed
  /\ exchanges' = Rejected(exchanges) /\ child' = "exited"
  /\ session' = [session EXCEPT !.closed = TRUE, !.poisoned = TRUE]
  /\ UNCHANGED <<authorizing, atHelper, tombstones, orphans, ledgerWrites, rotateVars>>

\* #closeOwnedChild: end of input, TERM, KILL, and a second for the exit to be seen.
ChildCloses ==
  /\ child = "closing"
  /\ \/ child' = "exited" /\ NoSessionFault
     \/ child' = "stuck" /\ SessionFault
  /\ UNCHANGED <<callVars, ledgerWrites, session, rotateVars>>

-----------------------------------------------------------------------------
(* rotate. *)

PendingCalls == {e \in Exchanges : exchanges[e] = "pending"}
Quiescent == PendingCalls = {} /\ ledgerWrites = 0
Quarantined == rotating' = "quarantined" /\ UNCHANGED <<drained, replaced>>

Rotate ==
  /\ rotating = "no" /\ rotating' = "prepared" /\ UNCHANGED <<drained, replaced>>
  /\ UNCHANGED <<callVars, ledgerWrites, session, child>> /\ NoSessionFault

\* sealForRotation
Seal ==
  /\ rotating = "prepared"
  /\ IF ~session.closed /\ Quiescent /\ authorizing = {}
     THEN session' = [session EXCEPT !.sealed = TRUE] /\ rotating' = "sealed" /\ UNCHANGED <<drained, replaced>>
     ELSE UNCHANGED session /\ Quarantined
  /\ UNCHANGED <<callVars, ledgerWrites, child>> /\ NoSessionFault

\* The helper is clean only when every call it was given has been answered.
Drain ==
  /\ rotating = "sealed"
  /\ IF ~session.closed /\ {e \in atHelper : ExchangeKind[e] = "mutation"} = {} /\ Quiescent
     THEN rotating' = "drained" /\ drained' = TRUE /\ UNCHANGED replaced
     ELSE Quarantined
  /\ UNCHANGED <<callVars, ledgerWrites, session, child>> /\ NoSessionFault

\* The receipts are kept while status and cancel calls may still be sent.
Retain ==
  /\ rotating = "drained"
  /\ \/ rotating' = "retained" /\ UNCHANGED <<drained, replaced>> /\ NoSessionFault
     \/ SessionFault /\ Quarantined
  /\ UNCHANGED <<callVars, ledgerWrites, session, child>>

\* Mutant: the state is not checked again after the receipts were kept.
AnyState == TRUE
StillQuiescent == Quiescent

CloseOld ==
  /\ rotating = "retained"
  /\ IF StillQuiescent
     THEN /\ rotating' = "closing" /\ session' = [session EXCEPT !.closed = TRUE]
          /\ child' = IF child = "running" THEN "closing" ELSE child
          /\ UNCHANGED <<drained, replaced>>
     ELSE Quarantined /\ UNCHANGED <<session, child>>
  /\ UNCHANGED <<callVars, ledgerWrites>> /\ NoSessionFault

\* Mutant: close is started and not awaited.
CloseStarted == child # "running"
OldIsGone == child = "exited"

\* close ends: what was still pending is rejected.
Closed ==
  /\ rotating = "closing" /\ (OldIsGone \/ child = "stuck")
  /\ exchanges' = Rejected(exchanges)
  /\ IF OldIsGone THEN rotating' = "replacing" /\ UNCHANGED <<drained, replaced>> ELSE Quarantined
  /\ UNCHANGED <<authorizing, atHelper, tombstones, orphans, ledgerWrites, session, child>> /\ NoSessionFault

\* createReplacement, its verification and the new inventory.
Replace ==
  /\ rotating = "replacing" /\ replaced' = TRUE /\ UNCHANGED drained
  /\ \/ rotating' = "done" /\ NoSessionFault
     \/ rotating' = "quarantined" /\ SessionFault
  /\ UNCHANGED <<callVars, ledgerWrites, session, child>>

Rotation == Rotate \/ Seal \/ Drain \/ Retain \/ CloseOld \/ Closed \/ Replace

SessionNext ==
  \/ \E e \in Exchanges : \/ Call(e) \/ Authorized(e) \/ AskView(e) \/ Exchange(e) \/ SendFails(e)
                          \/ GiveUp(e) \/ Answer(e) \/ Undo(e)
  \/ PersistAsked \/ PersistEnds \/ ChildLost \/ ChildCloses \/ Rotation

\* Promises, timers and the reader run; a caller, the store, the helper and a rotation
\* owe nothing.
SessionFairness ==
  /\ \A e \in Exchanges : /\ WF_sessionVars(GiveUp(e)) /\ WF_sessionVars(Undo(e))
                          /\ WF_sessionVars(Authorized(e)) /\ WF_sessionVars(AskView(e))
                          /\ WF_sessionVars(Exchange(e))
  /\ WF_sessionVars(ChildCloses)
SessionSpec == SessionInit /\ [][SessionNext]_sessionVars /\ SessionFairness

-----------------------------------------------------------------------------
(* Properties. *)

\* Once the session is sealed for a rotation no mutation reaches the helper and
\* none is awaited, though its authorities were asked before.  Three checks, after
\* each await (adapter.ts:341, 399 and 731), are there for it.
NothingMutatesAfterSeal ==
  session.sealed => \A e \in Exchanges : ExchangeKind[e] = "mutation" => exchanges[e] # "pending"

\* Giving up a call never costs the session: without a fault it is not poisoned,
\* however late the answers are (#expired).
LateAnswersAreHarmless == session.poisoned => sessionFaults > 0

\* A second helper is started only after the exit of the first was seen
\* (session-lifecycle.ts awaits close, which throws when the exit is not confirmed).
OneHelper == replaced => child = "exited"

\* Every call of an observer that was given up and succeeded all the same is undone,
\* or the session, and with it the helper, ends.
NoOrphanObserver == \A e \in Exchanges : e \in orphans ~> (e \notin orphans \/ session.closed)

\* A sealed session stays still, a late answer costs nothing, there is one helper at a
\* time, and a rotation closes it only when no call and no ledger write is pending,
\* although the sealed session took status and cancel calls meanwhile.
SessionIsAligned ==
  [][/\ NothingMutatesAfterSeal' /\ LateAnswersAreHarmless' /\ OneHelper'
     /\ (CloseOld /\ rotating' = "closing" => PendingCalls = {} /\ ledgerWrites = 0)]_sessionVars
=============================================================================
