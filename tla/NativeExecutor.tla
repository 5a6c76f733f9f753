---------------------------- MODULE NativeExecutor ----------------------------
(***************************************************************************)
(* Held input in the native helper and its durable ledger: the executor    *)
(* (native/src/executor.c) that presses and releases keys and buttons, the *)
(* bridge that turns an action into its calls (input_bridge.c), the        *)
(* exchange of ledger snapshots with the runtime (input_job.m) and the     *)
(* runtime's store (held-ledger.ts with validateLedgerTransition).         *)
(*                                                                         *)
(* Every change of the ledger is sent to the runtime and waits for its     *)
(* acknowledgement for a second.  The snapshot may be refused, its         *)
(* acknowledgement lost, or its write end after the wait has.  A call of   *)
(* the system that posts an event may fail without saying whether the      *)
(* event was posted.  All the reasons to stop an operation (cancel, lost   *)
(* heartbeat, deadline, an event of the user, a target that no longer      *)
(* verifies) are one choice at each of the executor's checkpoints.         *)
(***************************************************************************)
EXTENDS Naturals, Sequences

CONSTANTS
  Codes,           \* keys and buttons
  MaxInputs,       \* bound: operations begun by one helper
  MaxLedgerFaults, \* bound: snapshots whose write or acknowledgement fails
  MaxPostFaults,   \* bound: posts and timings that fail
  MaxStops         \* bound: operations stopped from outside

ASSUME ExecutorAssumption ==
  {MaxInputs, MaxLedgerFaults, MaxPostFaults, MaxStops} \subseteq Nat

VARIABLES
  step,        \* where the worker stands in the call it is making
  calls,       \* what is left of the action: the bridge's calls
  again,       \* the stop found the operation stopped by the observer first
  cursor,      \* release_confirmed_holds: entries not visited yet
  entries,     \* ledger and volatile_holds of the operation
  revision,    \* status.ledger_revision
  unavailable, \* persistence_unavailable
  status,      \* the rest of MetaExecutorStatus, and "active"
  inputs,      \* operations begun; the last one is the current
  sealed,      \* rotation_sealed, and whether the seal said the helper is clean
  wire,        \* the snapshot on its way to the store
  reply,       \* what the worker knows of it
  durable,     \* the store: the snapshot of each operation
  physical,    \* the codes that are down on the machine
  downs, ups,  \* events posted or possibly posted, by code
  ledgerFaults, postFaults, stops

execVars  == <<step, calls, again, cursor, entries, revision, unavailable, status, inputs, sealed>>
storeVars == <<wire, reply, durable>>
machine   == <<physical, downs, ups>>
faultVars == <<ledgerFaults, postFaults, stops>>
executorVars == <<execVars, storeVars, machine, faultVars>>

-----------------------------------------------------------------------------
(* The plans of the bridge, the ledger, and the start. *)

Down(c) == [call |-> "down", code |-> c]
Up(c) == [call |-> "up", code |-> c]
Event == [call |-> "event"]   \* text, a pointer or scroll event, an action

\* A key and a shortcut of two; a hover or scroll, a double click and a drag; a
\* text of one cluster or two.
KeyPlans == {<<Down(c), Up(c)>> : c \in Codes}
            \cup {<<Down(c), Up(c), Down(d), Up(d)>> : c, d \in Codes}
PointerPlans == {<<Event>>} \cup {<<Event, Down(c), Up(c), Down(c), Up(c)>> : c \in Codes}
                \cup {<<Event, Down(c), Event, Up(c)>> : c \in Codes}
TextPlans == {<<Event>>, <<Event, Event>>}
Plans == KeyPlans \cup PointerPlans \cup TextPlans

States == {"pending-down", "confirmed-down", "pending-up", "released", "uncertain"}
Entry == [code : Codes, state : States, live : BOOLEAN, attempted : BOOLEAN,
          lost : BOOLEAN, prepared : BOOLEAN]
Fresh(c) == [code |-> c, state |-> "pending-down", live |-> FALSE, attempted |-> FALSE,
             lost |-> FALSE, prepared |-> FALSE]

Unreleased(es) == {i \in DOMAIN es : es[i].state # "released"}
HeldCount == Unreleased(entries)

Snapshot(es, r) == [input |-> inputs, revision |-> r,
                    entries |-> [i \in DOMAIN es |-> [code |-> es[i].code, state |-> es[i].state]]]
NoSnapshot == [input |-> 0, revision |-> 0, entries |-> <<>>]

Idle == [active |-> FALSE, execution |-> "idle", dispatch |-> "none", cleanup |-> "complete",
         attempts |-> 0, quarantined |-> FALSE]

ExecutorInit ==
  /\ step = "idle" /\ calls = <<>> /\ again = FALSE /\ cursor = 0
  /\ entries = <<>> /\ revision = 0 /\ unavailable = FALSE /\ status = Idle
  /\ inputs = 0 /\ sealed = "no"
  /\ wire = NoSnapshot /\ reply = "none"
  /\ durable = [n \in 1..MaxInputs |-> NoSnapshot]
  /\ physical = {} /\ downs = [c \in Codes |-> 0] /\ ups = downs
  /\ ledgerFaults = 0 /\ postFaults = 0 /\ stops = 0

StepNames ==
  {"idle", "call", "down_intent", "down_ready", "down_done", "up_intent", "up_ready", "up_done",
   "report", "release", "close_done", "cleanup_intent", "cleanup_ready", "cleanup_done",
   "cleanup_report", "dead"}

ExecutorTypeOK ==
  /\ step \in StepNames /\ again \in BOOLEAN /\ cursor \in 0..Len(entries)
  /\ \A i \in DOMAIN entries : entries[i] \in Entry
  /\ status.execution \in {"idle", "dispatching", "cancelling", "stopped", "finished", "quarantined"}
  /\ status.dispatch \in {"none", "attempted", "partial", "finished", "unknown"}
  /\ sealed \in {"no", "dirty", "clean"}
  /\ reply \in {"none", "waiting", "ok", "no"}
  /\ physical \subseteq Codes

-----------------------------------------------------------------------------
(* Helpers. *)

Current == Len(entries)   \* the bridge holds one code at a time: the last entry
Changed(e, changes) == [f \in DOMAIN e |-> IF f \in DOMAIN changes THEN changes[f] ELSE e[f]]
With(i, changes) == [entries EXCEPT ![i] = Changed(@, changes)]

MayStop == stops < MaxStops /\ stops' = stops + 1 /\ UNCHANGED <<ledgerFaults, postFaults>>
PostFails == postFaults < MaxPostFaults /\ postFaults' = postFaults + 1
             /\ UNCHANGED <<ledgerFaults, stops>>
NoFault == UNCHANGED faultVars

\* persist_ledger sends the whole ledger and waits; once a snapshot was not
\* acknowledged the operation sends none.
Persist(es, s) ==
  /\ entries' = es /\ step' = s
  /\ IF unavailable THEN reply' = "no" /\ UNCHANGED wire
     ELSE reply' = "waiting" /\ wire' = Snapshot(es, revision + 1)
  /\ UNCHANGED <<revision, unavailable, durable>>

\* The end of the wait.
Answered(ok) ==
  /\ reply = (IF ok THEN "ok" ELSE "no") /\ reply' = "none"
  /\ revision' = IF ok THEN revision + 1 ELSE revision
  /\ unavailable' = (unavailable \/ ~ok)
  /\ UNCHANGED <<wire, durable>>

Unasked == UNCHANGED <<storeVars, revision, unavailable>>

Quarantine ==
  /\ status' = [status EXCEPT !.execution = "quarantined", !.dispatch = "unknown",
                              !.cleanup = "unknown", !.quarantined = TRUE, !.active = FALSE]
  /\ step' = "idle"

\* release_confirmed_holds visits the entries from the last to the first.
StartRelease == step' = "release" /\ cursor' = Len(entries)

\* stop_for_reason.  When it is the observer that stopped the operation, the
\* checkpoint that asked for it stops it once more.
StopForReason ==
  /\ status' = [status EXCEPT !.execution = "cancelling"]
  /\ again' \in BOOLEAN
  /\ StartRelease

Stopped == MayStop /\ StopForReason /\ Unasked /\ UNCHANGED <<calls, entries, inputs, sealed, machine>>

-----------------------------------------------------------------------------
(* The operation. *)

\* meta_executor_begin: a clean ledger, and the target verified once.
Begin ==
  /\ step = "idle" /\ ~status.active /\ sealed = "no" /\ ~status.quarantined
  /\ inputs < MaxInputs /\ inputs' = inputs + 1
  /\ entries' = <<>> /\ revision' = 0 /\ unavailable' = FALSE
  /\ \/ /\ calls' \in Plans /\ step' = "call" /\ NoFault
        /\ status' = [Idle EXCEPT !.active = TRUE, !.execution = "dispatching"]
     \/ /\ MayStop /\ calls' = <<>> /\ step' = "idle"
        /\ status' = [Idle EXCEPT !.execution = "stopped"]
  /\ UNCHANGED <<again, cursor, sealed, storeVars, machine>>

\* A checkpoint, or the last check before an event is posted, stops the operation.
StopAtCheckpoint == step \in {"call", "down_ready", "up_ready"} /\ Stopped

\* post_text_cluster, post_pointer_event, post_scroll_event, dispatch_action.
PostEvent ==
  /\ step = "call" /\ calls # <<>> /\ Head(calls).call = "event"
  /\ \/ /\ NoFault /\ step' = "call" /\ calls' = Tail(calls)
        /\ status' = [status EXCEPT !.attempts = @ + 1, !.dispatch = "partial"]
     \/ PostFails /\ Quarantine /\ UNCHANGED calls
  /\ Unasked /\ UNCHANGED <<again, cursor, entries, inputs, sealed, machine>>

\* post_down: the intention is durable before the event is posted.
AnnounceDown ==
  /\ step = "call" /\ calls # <<>> /\ Head(calls).call = "down"
  /\ Persist(Append(entries, Fresh(Head(calls).code)), "down_intent")
  /\ NoFault /\ UNCHANGED <<calls, again, cursor, status, inputs, sealed, machine>>

\* What post_down and post_up do when the ledger cannot be kept.
LoseDurability ==
  /\ Answered(FALSE)
  /\ entries' = With(Current, [state |-> "uncertain", lost |-> TRUE])

DownAnnounced ==
  /\ step = "down_intent"
  /\ \/ /\ Answered(TRUE) /\ step' = "down_ready" /\ UNCHANGED cursor
        /\ entries' = With(Current, [prepared |-> TRUE])
     \/ LoseDurability /\ StartRelease
  /\ NoFault /\ UNCHANGED <<calls, again, status, inputs, sealed, machine>>

\* Mutant: the down is posted while its announcement is on its way.
PostEarly == step \in {"down_ready", "down_intent"}

\* The down is posted once its announcement is durable.
ReadyToPost == step = "down_ready"

PostDown ==
  LET c == entries[Current].code IN
  /\ ReadyToPost
  /\ downs' = [downs EXCEPT ![c] = @ + 1] /\ UNCHANGED ups
  /\ status' = [status EXCEPT !.attempts = @ + 1, !.dispatch = "attempted"]
  /\ \/ /\ NoFault /\ physical' = physical \cup {c}
        /\ Persist(With(Current, [prepared |-> FALSE, live |-> TRUE, state |-> "confirmed-down"]),
                   "down_done")
     \/ /\ PostFails /\ physical' \in {physical, physical \cup {c}}
        /\ Persist(With(Current, [prepared |-> FALSE, state |-> "uncertain"]), "report")
  /\ UNCHANGED <<calls, again, cursor, inputs, sealed>>

\* The last check refuses the announced down: its entry is closed without an up.
RefuseDown ==
  /\ step = "down_ready" /\ MayStop
  /\ Persist(With(Current, [prepared |-> FALSE, state |-> "released"]), "close_done")
  /\ UNCHANGED <<calls, again, cursor, status, inputs, sealed, machine>>

RefusedDownClosed ==
  /\ step = "close_done"
  /\ \/ Answered(TRUE) /\ entries' = entries /\ StopForReason
     \/ Answered(FALSE) /\ Quarantine /\ UNCHANGED <<entries, cursor, again>>
  /\ NoFault /\ UNCHANGED <<calls, inputs, sealed, machine>>

DownConfirmed ==
  /\ step = "down_done"
  /\ \/ /\ Answered(TRUE) /\ step' = "call" /\ calls' = Tail(calls)
        /\ UNCHANGED <<entries, cursor>>
     \/ LoseDurability /\ StartRelease /\ UNCHANGED calls
  /\ NoFault /\ UNCHANGED <<again, status, inputs, sealed, machine>>

\* post_up: the intention, the event, the release.
AnnounceUp ==
  /\ step = "call" /\ calls # <<>> /\ Head(calls).call = "up"
  /\ Persist(With(Current, [state |-> "pending-up"]), "up_intent")
  /\ NoFault /\ UNCHANGED <<calls, again, cursor, status, inputs, sealed, machine>>

UpAnnounced ==
  /\ step = "up_intent"
  /\ \/ Answered(TRUE) /\ step' = "up_ready" /\ UNCHANGED <<entries, cursor>>
     \/ LoseDurability /\ StartRelease
  /\ NoFault /\ UNCHANGED <<calls, again, status, inputs, sealed, machine>>

PostUp ==
  LET c == entries[Current].code IN
  /\ step = "up_ready"
  /\ ups' = [ups EXCEPT ![c] = @ + 1] /\ UNCHANGED downs
  /\ status' = [status EXCEPT !.attempts = @ + 1, !.dispatch = "partial"]
  /\ \/ /\ NoFault /\ physical' = physical \ {c}
        /\ Persist(With(Current, [attempted |-> TRUE, live |-> FALSE, state |-> "released"]),
                   "up_done")
     \/ /\ PostFails /\ physical' \in {physical, physical \ {c}}
        /\ Persist(With(Current, [attempted |-> TRUE, state |-> "uncertain"]), "report")
  /\ UNCHANGED <<calls, again, cursor, inputs, sealed>>

UpReleased ==
  /\ step = "up_done"
  /\ \/ /\ Answered(TRUE) /\ step' = "call" /\ calls' = Tail(calls)
        /\ UNCHANGED <<entries, status>>
     \/ LoseDurability /\ Quarantine /\ UNCHANGED calls
  /\ NoFault /\ UNCHANGED <<again, cursor, inputs, sealed, machine>>

\* After an event of unknown outcome, whatever the store says.
Reported ==
  /\ step = "report"
  /\ \E ok \in BOOLEAN : Answered(ok)
  /\ Quarantine
  /\ NoFault /\ UNCHANGED <<calls, again, cursor, entries, inputs, sealed, machine>>

FinishInput ==
  /\ step = "call" /\ calls = <<>>
  /\ step' = "idle"
  /\ status' = [status EXCEPT !.active = FALSE, !.execution = "finished", !.cleanup = "complete",
                              !.dispatch = IF @ = "none" THEN "none" ELSE "finished"]
  /\ NoFault /\ Unasked
  /\ UNCHANGED <<calls, again, cursor, entries, inputs, sealed, machine>>

-----------------------------------------------------------------------------
(* The release of what may be held. *)

\* Mutant: the attempt is noted only when its result is known.
AttemptForgotten(posted) == posted

\* The mark that an up was posted is made before the call that posts it.
UpAttempted(posted) == TRUE

Settled(e) == e.state = "released" /\ ~e.live /\ ~e.lost
NextEntry == cursor' = cursor - 1 /\ step' = "release"
GivenUp(i) == With(i, [state |-> IF entries[i].live THEN "uncertain"
                                 ELSE IF entries[i].state = "released" THEN "released"
                                 ELSE "uncertain"])

\* release_live_owned_entry, as far as its first snapshot: the entry needs
\* nothing, was announced but never pressed, cannot be released, or gets its up.
VisitEntry ==
  LET e == entries[cursor]
      tooLate == e.attempted
  IN
  /\ step = "release" /\ cursor > 0
  /\ \/ Settled(e) /\ NoFault /\ NextEntry /\ UNCHANGED entries /\ Unasked
     \/ /\ e.prepared /\ ~e.live /\ ~unavailable /\ NoFault
        /\ Persist(With(cursor, [prepared |-> FALSE, state |-> "released"]), "cleanup_done")
        /\ UNCHANGED cursor
     \/ /\ ~Settled(e) /\ ~e.live /\ (e.prepared => unavailable) /\ NoFault
        /\ entries' = GivenUp(cursor) /\ NextEntry /\ Unasked
     \/ /\ e.live
        /\ \/ tooLate /\ NoFault
           \/ ~tooLate /\ ~unavailable /\ PostFails   \* a second has passed
        /\ entries' = GivenUp(cursor) /\ NextEntry /\ Unasked
     \/ /\ e.live /\ ~tooLate /\ NoFault
        /\ Persist(With(cursor, [state |-> "pending-up"]), "cleanup_intent")
        /\ UNCHANGED cursor
  /\ UNCHANGED <<calls, again, status, inputs, sealed, machine>>

\* The up is posted whether or not its announcement is durable.
CleanupAnnounced ==
  /\ step = "cleanup_intent" /\ step' = "cleanup_ready"
  /\ \/ Answered(TRUE) /\ UNCHANGED entries
     \/ Answered(FALSE) /\ entries' = With(cursor, [lost |-> TRUE, state |-> "uncertain"])
  /\ NoFault /\ UNCHANGED <<calls, again, cursor, status, inputs, sealed, machine>>

PostCleanupUp ==
  LET c == entries[cursor].code IN
  /\ step = "cleanup_ready"
  /\ ups' = [ups EXCEPT ![c] = @ + 1] /\ UNCHANGED downs
  /\ status' = [status EXCEPT !.attempts = @ + 1]
  /\ \/ /\ NoFault /\ physical' = physical \ {c}
        /\ LET after == With(cursor, [attempted |-> TRUE, live |-> FALSE,
                               state |-> IF entries[cursor].lost THEN "uncertain" ELSE "released"])
           IN Persist(after, IF entries[cursor].lost THEN "cleanup_report" ELSE "cleanup_done")
     \/ /\ PostFails /\ physical' \in {physical, physical \ {c}}
        /\ Persist(With(cursor, [attempted |-> UpAttempted(FALSE), state |-> "uncertain"]),
                   "cleanup_report")
  /\ UNCHANGED <<calls, again, cursor, inputs, sealed>>

CleanupReleased ==
  /\ step = "cleanup_done" /\ NextEntry
  /\ \/ Answered(TRUE) /\ UNCHANGED entries
     \/ Answered(FALSE) /\ entries' = With(cursor, [lost |-> TRUE, state |-> "uncertain"])
  /\ NoFault /\ UNCHANGED <<calls, again, status, inputs, sealed, machine>>

CleanupReported ==
  /\ step = "cleanup_report" /\ NextEntry
  /\ \E ok \in BOOLEAN : Answered(ok)
  /\ NoFault /\ UNCHANGED <<calls, again, entries, status, inputs, sealed, machine>>

\* Mutant: an operation that was only announced counts as clean.
CleanIfReleased == \A i \in DOMAIN entries : entries[i].state # "confirmed-down"

\* Every entry was released, and the ledger says so.
CleanupComplete == HeldCount = {} /\ \A i \in DOMAIN entries : ~entries[i].lost

\* The end of release_confirmed_holds and of the stop that called it.
EndRelease ==
  /\ step = "release" /\ cursor = 0
  /\ \/ /\ CleanupComplete
        /\ status' = [status EXCEPT !.execution = "stopped", !.cleanup = "complete",
                                    !.active = FALSE,
                                    !.dispatch = IF @ = "none" THEN "none" ELSE "partial"]
        /\ IF again THEN again' = FALSE /\ StartRelease
           ELSE step' = "idle" /\ UNCHANGED <<again, cursor>>
     \/ /\ ~CleanupComplete
        /\ IF again
           THEN /\ status' = [status EXCEPT !.execution = "cancelling", !.dispatch = "unknown",
                                            !.cleanup = "unknown", !.quarantined = TRUE,
                                            !.active = FALSE]
                /\ again' = FALSE /\ StartRelease
           ELSE Quarantine /\ UNCHANGED <<again, cursor>>
  /\ NoFault /\ Unasked /\ UNCHANGED <<calls, entries, inputs, sealed, machine>>

-----------------------------------------------------------------------------
(* The store of the runtime, and the rest of the world. *)

\* validateLedgerTransition: what one entry may become.
Allowed == {<<"pending-down", "confirmed-down">>, <<"confirmed-down", "pending-up">>,
            <<"pending-up", "released">>}
           \cup {<<s, s>> : s \in States} \cup {<<s, "uncertain">> : s \in States \ {"released"}}

\* The snapshot follows the stored one.  The hash chain and the exact key of the
\* operation hold for every snapshot the executor makes, which sends none twice.
Follows(old, new) ==
  IF old.revision = 0 THEN new.revision = 1
  ELSE /\ new.revision = old.revision + 1
       /\ Len(old.entries) <= Len(new.entries)
       /\ \A i \in DOMAIN new.entries :
            IF i \in DOMAIN old.entries
            THEN /\ old.entries[i].code = new.entries[i].code
                 /\ <<old.entries[i].state, new.entries[i].state>> \in Allowed
            ELSE new.entries[i].state = "pending-down"

Tell(answer) == reply' = IF reply = "waiting" THEN answer ELSE reply

\* FileHeldInputLedger.persist, and its answer.
StoreSnapshot ==
  /\ wire.revision > 0 /\ wire' = NoSnapshot
  /\ \/ /\ Follows(durable[wire.input], wire)
        /\ durable' = [durable EXCEPT ![wire.input] = wire] /\ Tell("ok")
     \/ /\ ~Follows(durable[wire.input], wire)
        /\ Tell("no") /\ UNCHANGED durable
  /\ UNCHANGED <<execVars, machine, faultVars>>

\* The wait ends without an acknowledgement: the snapshot was lost, or its write
\* is still to come, or only the acknowledgement was late.
StopWaiting ==
  /\ reply = "waiting" /\ reply' = "no"
  /\ ledgerFaults < MaxLedgerFaults /\ ledgerFaults' = ledgerFaults + 1
  /\ wire' \in {wire, NoSnapshot}
  /\ UNCHANGED <<execVars, durable, machine, postFaults, stops>>

\* Mutant: the seal looks only for an operation in progress.
QuietEnough == ~status.active

\* meta_executor_seal_for_rotation.
CleanForRotation ==
  ~status.active /\ ~status.quarantined /\ status.cleanup = "complete" /\ HeldCount = {}

\* A drain finds no action running.
Seal ==
  /\ step = "idle" /\ sealed = "no"
  /\ sealed' = IF CleanForRotation THEN "clean" ELSE "dirty"
  /\ UNCHANGED <<step, calls, again, cursor, entries, revision, unavailable, status, inputs,
                 storeVars, machine, faultVars>>

\* The helper dies; what it sent may still be stored.
HelperDies ==
  /\ step # "dead" /\ step' = "dead" /\ reply' = "none"
  /\ wire' \in {wire, NoSnapshot}
  /\ UNCHANGED <<calls, again, cursor, entries, revision, unavailable, status, inputs, sealed,
                 durable, machine, faultVars>>

Worker ==
  \/ StopAtCheckpoint \/ PostEvent \/ AnnounceDown \/ DownAnnounced \/ PostDown
  \/ RefuseDown \/ RefusedDownClosed \/ DownConfirmed \/ AnnounceUp \/ UpAnnounced \/ PostUp
  \/ UpReleased \/ Reported \/ FinishInput \/ VisitEntry \/ CleanupAnnounced \/ PostCleanupUp
  \/ CleanupReleased \/ CleanupReported \/ EndRelease

ExecutorNext == Begin \/ Worker \/ StoreSnapshot \/ StopWaiting \/ Seal \/ HelperDies

-----------------------------------------------------------------------------
(* Properties. *)

\* A key or button that is down on the machine is in the durable ledger as not
\* released, at every moment: whoever dies, the recovery knows what may be held.
HeldInputIsDurable ==
  \A c \in physical : \E n \in 1..MaxInputs : \E i \in Unreleased(durable[n].entries) :
    durable[n].entries[i].code = c

\* No key gets more ups than downs, across the calls of an action, the release
\* after a lost acknowledgement, and a stop repeated over the observer's: an up
\* too many would release a key the user holds.
UpsMatchDowns == \A c \in Codes : ups[c] <= downs[c]

\* Between operations a helper that is not quarantined holds nothing.
IdleMeansReleased == step = "idle" /\ ~status.quarantined => physical = {}

\* A helper that sealed clean leaves nothing for its successor: no code is down,
\* and every ledger in the store, a late write included, is fully released.
RotationHandsOverNothing ==
  sealed = "clean" =>
    physical = {} /\ \A n \in 1..MaxInputs : Unreleased(durable[n].entries) = {}

\* What goes down comes up, exactly once: whatever the order of posts, refusals,
\* stops and lost acknowledgements, nothing is released twice, and neither an idle
\* helper nor the successor of a clean one finds anything held.
InputEndsReleased == UpsMatchDowns /\ IdleMeansReleased /\ RotationHandsOverNothing

\* Input is never lost sight of: it is on record while it is held, and it ends released.
HeldInputIsSafe == HeldInputIsDurable /\ InputEndsReleased
=============================================================================
