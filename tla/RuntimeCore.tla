----------------------------- MODULE RuntimeCore -----------------------------
(***************************************************************************)
(* The operation life cycle of the runtime (runtime/src/core.ts with       *)
(* resources.ts and storage/operation-journal.ts): admission and           *)
(* deduplication of a request, exclusive leases on resources, the durable  *)
(* record that precedes every step with a side effect, the race of the     *)
(* adapter against cancellation, cleanup or quarantine of the leases, late *)
(* reconciliation, drain, and recovery after the runtime process dies.     *)
(*                                                                         *)
(* An element of Calls is one call of runOperation for a native or         *)
(* clipboard operation; it also names the operation the call creates, if   *)
(* it creates one.  Browser and device operations run with a lifetime      *)
(* coordinator and are not part of this module.                            *)
(*                                                                         *)
(* A step is a stretch of JavaScript between two points where the handler  *)
(* waits for something outside the microtask queue.  The two waits that    *)
(* never leave it (assertActive and targets.resolve at admission) separate *)
(* Submit from Admit, and Quiet keeps timers, I/O and other processes out  *)
(* between the two.                                                        *)
(***************************************************************************)
EXTENDS Naturals, Sequences, FiniteSets, OperationJournal

CONSTANTS
  Calls,        \* calls of runOperation
  NoCall,       \* "no operation"
  Keys,         \* authenticated client lineage with its clientRequestId
  Resources,    \* resources that can be leased: desktop input, clipboard, ...
  KeyOf,        \* the request key of each call
  PayloadOf,    \* the digest of intent, precondition, resources and request
  Needs,        \* requestedResources of each call
  MaxFaults,    \* bound: failed attempts of durable writes
  MaxCrashes,   \* bound: deaths of the runtime process
  MayDrain      \* bound: whether the host is ever asked to drain

\* Every caller of the public runOperation requests at least one resource.
ASSUME CoreAssumption ==
  /\ NoCall \notin Calls
  /\ KeyOf \in [Calls -> Keys]
  /\ Needs \in [Calls -> (SUBSET Resources) \ {{}}]
  /\ \A c, d \in Calls : PayloadOf[c] = PayloadOf[d] => Needs[c] = Needs[d]
  /\ MaxFaults \in Nat
  /\ MaxCrashes \in Nat
  /\ MayDrain \in BOOLEAN

VARIABLES
  \* the call and the handler of its operation
  pc,           \* where the handler of each call stands
  dedup,        \* #dedup: the operation that owns each request key
  mem,          \* entry.record
  staged,       \* the terminal record the handler is about to commit
  aborted,      \* entry.controller.signal.aborted
  started,      \* entry.adapterStarted
  auth,         \* entry.recoveryPending: the native send authorization
  viewFailed,   \* entry.viewFailure
  recon,        \* progress of reconcileCleanup
  \* shared by the operations
  slot,         \* ResourceRegistry.#slots
  sealed,       \* #admissionSealed
  poisoned,     \* #storagePoisoned with its startup recovery reason
  drain,        \* progress of drainOperations
  \* durable storage
  queue,        \* entry.durableTail: writes not yet finished, oldest first
  disk,         \* the journal files
  \* startup recovery
  initialized,  \* #storageInitialized
  serving,      \* the host went on after the first refresh: clients and timers exist
  hist,         \* operations of earlier runtime epochs found in the journal
  evidence,     \* #recoveryEvidence
  heldPending,  \* #startupPendingHeld > 0
  refresh,      \* progress of refreshStartupRecovery
  \* outside of the runtime
  sent,         \* a native mutation of the operation left the runtime
  live,         \* the native helper may still act or hold input for it
  faults, crashes

handlerVars == <<pc, dedup, mem, staged, aborted, started, auth, viewFailed, recon>>
sharedVars  == <<slot, sealed, poisoned, drain>>
storeVars   == <<queue, disk>>
startVars   == <<initialized, serving, hist, evidence, heldPending, refresh>>
worldVars   == <<sent, live, faults, crashes>>
vars == <<handlerVars, sharedVars, storeVars, startVars, worldVars>>

-----------------------------------------------------------------------------
(* Where a handler can stand. *)

\* #persist calls of #execute: the handler waits for the durable write.
WriteTags == {"registered", "dispatching", "committing", "releasing", "quarantining"}

Unsettled == WriteTags \cup
  {"check", "ready", "running", "verifying", "commit", "failing", "release", "settle"}

Answered == {"joined", "mismatch", "expired", "refused", "busy", "lost"}

PCs == {"idle", "resolving", "settled"} \cup Unsettled \cup Answered

\* entry.settled = false for an entry of this runtime epoch.
Active == {c \in Calls : pc[c] \in Unsettled}

\* No handler stands between two microtasks of its admission.
Quiet == \A c \in Calls : pc[c] # "resolving"

FreeSlot == [op |-> NoCall, state |-> "free"]
Held(c, st) == [op |-> c, state |-> st]

QuarantinedSlots == {r \in Resources : slot[r].state = "quarantined"}

\* A write is handed to the store with its record; attempt 0 means that it
\* still waits behind an earlier write of the same operation.
Write(tag, rec, q) ==
  [tag |-> tag, rec |-> rec, attempt |-> IF q = <<>> THEN 1 ELSE 0, renamed |-> FALSE]

Enqueue(c, tag, rec) ==
  queue' = [queue EXCEPT ![c] = Append(@, Write(tag, rec, @))]

Tags == WriteTags \cup {"auth", "reconcile", "recover"}

DurableWrite == [tag : Tags, rec : Record, attempt : 0..2, renamed : BOOLEAN]

Slot == [op : Calls \cup {NoCall}, state : {"free", "active", "quarantined"}]

Refresh == [on : BOOLEAN, reopen : BOOLEAN, todo : SUBSET Calls, left : SUBSET Calls,
            cur : Calls \cup {NoCall}]

NoDrain == [phase |-> "none", waits |-> {}]

NoRefresh == [on |-> FALSE, reopen |-> FALSE, todo |-> {}, left |-> {}, cur |-> NoCall]

TypeOK ==
  /\ pc \in [Calls -> PCs]
  /\ dedup \in [Keys -> Calls \cup {NoCall}]
  /\ mem \in [Calls -> StoredRecord]
  /\ staged \in [Calls -> StoredRecord]
  /\ aborted \in [Calls -> BOOLEAN]
  /\ started \in [Calls -> BOOLEAN]
  /\ auth \in [Calls -> {"none", "pending", "granted", "refused"}]
  /\ viewFailed \in [Calls -> {"no", "stale", "cancelled"}]
  /\ recon \in [Calls -> {"none", "writing", "written"}]
  /\ slot \in [Resources -> Slot]
  /\ sealed \in BOOLEAN
  /\ poisoned \in BOOLEAN
  /\ drain \in [phase : {"none", "waiting", "clean", "failed"}, waits : SUBSET Calls]
  /\ queue \in [Calls -> Seq(DurableWrite)]
  /\ disk \in [Calls -> StoredRecord]
  /\ initialized \in BOOLEAN
  /\ serving \in BOOLEAN
  /\ hist \subseteq Calls
  /\ evidence \subseteq Calls
  /\ heldPending \in BOOLEAN
  /\ refresh \in Refresh
  /\ sent \in [Calls -> BOOLEAN]
  /\ live \in [Calls -> BOOLEAN]
  /\ faults \in 0..MaxFaults
  /\ crashes \in 0..MaxCrashes

Init ==
  /\ pc = [c \in Calls |-> "idle"]
  /\ dedup = [k \in Keys |-> NoCall]
  /\ mem = [c \in Calls |-> NoRecord]
  /\ staged = [c \in Calls |-> NoRecord]
  /\ aborted = [c \in Calls |-> FALSE]
  /\ started = [c \in Calls |-> FALSE]
  /\ auth = [c \in Calls |-> "none"]
  /\ viewFailed = [c \in Calls |-> "no"]
  /\ recon = [c \in Calls |-> "none"]
  /\ slot = [r \in Resources |-> FreeSlot]
  /\ sealed = FALSE
  /\ poisoned = FALSE
  /\ drain = NoDrain
  /\ queue = [c \in Calls |-> <<>>]
  /\ disk = [c \in Calls |-> NoRecord]
  /\ initialized = FALSE
  /\ serving = FALSE
  /\ hist = {}
  /\ evidence = {}
  /\ heldPending = FALSE
  /\ refresh = NoRefresh
  /\ sent = [c \in Calls |-> FALSE]
  /\ live = [c \in Calls |-> FALSE]
  /\ faults = 0
  /\ crashes = 0

Goto(c, p) == pc' = [pc EXCEPT ![c] = p]

\* #persist: refused at once when the storage is poisoned, otherwise the
\* handler waits for the write.
PersistOr(c, tag, rec, failed) ==
  IF poisoned THEN Goto(c, failed) /\ UNCHANGED queue
              ELSE Goto(c, tag) /\ Enqueue(c, tag, rec)

-----------------------------------------------------------------------------
(* Plausible mistakes.  No action uses these: each has the parameters of a  *)
(* definition below and shows, put in its place, that a property notices.   *)

\* The first record does not name the phase of its send gate.
RegisteredUngated == [state |-> "registered", cleanup |-> "pending", gate |-> "unnamed"]

\* A quarantined lease is handed out like a free one.
AllInactive(c) == \A r \in Needs[c] : slot[r].state # "active"

\* The grant is handed out while its record is still on the way to the disk.
GrantBeforeWrite(c) ==
  /\ Quiet
  /\ pc[c] = "running"
  /\ auth[c] = "none" /\ ~aborted[c] /\ ~poisoned
  /\ auth' = [auth EXCEPT ![c] = "granted"]
  /\ Enqueue(c, "auth", [mem[c] EXCEPT !.gate = "send-authorized"])
  /\ UNCHANGED <<pc, dedup, mem, staged, aborted, started, viewFailed, recon,
                 sharedVars, disk, startVars, worldVars>>

\* The adapter's word for a complete cleanup is enough.
AdapterBelieved(c) == TRUE

\* Unknown cleanup frees the leases too.
SlotsFreed(c, cleanup) ==
  [r \in Resources |-> IF slot[r].op = c THEN FreeSlot ELSE slot[r]]

\* An adapter that never answers is not raced against the grace period.
GuardedAfterAnswer == {"verifying", "committing"}

\* Quarantine is lifted before the cleaned record is durable.
ReconcileAtOnce(c) ==
  /\ Quiet
  /\ pc[c] = "settled" /\ recon[c] = "none"
  /\ mem[c].state \in {"failed", "interrupted-unknown"}
  /\ mem[c].cleanup # "complete"
  /\ ~live[c] /\ ~poisoned
  /\ Enqueue(c, "reconcile", [mem[c] EXCEPT !.cleanup = "complete"])
  /\ recon' = [recon EXCEPT ![c] = "written"]
  /\ UNCHANGED <<pc, dedup, mem, staged, aborted, started, auth, viewFailed,
                 sharedVars, disk, startVars, worldVars>>

\* Admission opens without a look at what startup recovery left.
MayUnsealUnrecovered(open, held) ==
  ~poisoned /\ initialized /\ Active = {} /\ QuarantinedSlots = {}

\* A drain succeeds over quarantined leases.
NothingActive == Active = {}

\* A late durable answer reaches a handler that has gone on.
WaitingForever(c, tag) ==
  \/ tag \in WriteTags
  \/ tag = "auth" /\ auth[c] = "pending"
  \/ tag = "reconcile" /\ recon[c] = "writing"
  \/ tag = "recover" /\ refresh.cur = c

\* The terminal record is committed whether or not it could be written.
CommitAnyway(tag, ok) ==
  CASE tag = "registered"   -> IF ok THEN "check" ELSE "failing"
    [] tag = "dispatching"  -> IF ok THEN "ready" ELSE "failing"
    [] tag = "committing"   -> "commit"
    [] tag = "releasing"    -> "release"
    [] tag = "quarantining" -> "settle"

\* The request keys of earlier epochs are not restored.
KeysForgotten == [k \in Keys |-> NoCall]

-----------------------------------------------------------------------------
(* Admission: the first half of #runOperation. *)

\* The lookup of the request key comes before every other check, so a repeat
\* is answered even when admission is sealed.
Submit(c) ==
  /\ serving
  /\ pc[c] = "idle"
  /\ LET prev == dedup[KeyOf[c]] IN
     \/ /\ prev # NoCall
        /\ Goto(c, IF PayloadOf[prev] # PayloadOf[c] THEN "mismatch"
                   ELSE IF prev \in hist THEN "expired" ELSE "joined")
     \/ /\ prev = NoCall
        /\ Goto(c, IF initialized /\ ~sealed THEN "resolving" ELSE "refused")
  /\ UNCHANGED <<dedup, mem, staged, aborted, started, auth, viewFailed, recon,
                 sharedVars, storeVars, startVars, worldVars>>

\* ResourceRegistry.acquire takes every requested resource or none.
AllFree(c) == \A r \in Needs[c] : slot[r] = FreeSlot

Registered == [state |-> "registered", cleanup |-> "pending", gate |-> "not-authorized"]

\* The target is resolved: leases, journal entry, request key and the first
\* durable write follow without a pause.  A busy or quarantined resource makes
\* the call fail without an entry.
Admit(c) ==
  /\ pc[c] = "resolving"
  /\ \/ /\ AllFree(c)
        /\ slot' = [r \in Resources |-> IF r \in Needs[c] THEN Held(c, "active") ELSE slot[r]]
        /\ dedup' = [dedup EXCEPT ![KeyOf[c]] = c]
        /\ mem' = [mem EXCEPT ![c] = Registered]
        /\ PersistOr(c, "registered", Registered, "failing")
     \/ /\ ~AllFree(c)
        /\ Goto(c, "busy")
        /\ UNCHANGED <<slot, dedup, mem, queue>>
  /\ UNCHANGED <<staged, aborted, started, auth, viewFailed, recon,
                 sealed, poisoned, drain, disk, startVars, worldVars>>

\* targets.resolve refuses a stale or unknown target.
TargetStale(c) ==
  /\ pc[c] = "resolving"
  /\ Goto(c, "refused")
  /\ UNCHANGED <<dedup, mem, staged, aborted, started, auth, viewFailed, recon,
                 sharedVars, storeVars, startVars, worldVars>>

-----------------------------------------------------------------------------
(* The handler up to the adapter: the first half of #execute. *)

\* The record is durable: checkpoint, admission check, next state, next write.
Check(c) ==
  /\ Quiet
  /\ pc[c] = "check"
  /\ \/ /\ aborted[c] \/ sealed
        /\ Goto(c, "failing")
        /\ UNCHANGED <<mem, queue>>
     \/ /\ ~aborted[c] /\ ~sealed
        /\ mem' = [mem EXCEPT ![c].state = "dispatching"]
        /\ PersistOr(c, "dispatching", mem'[c], "failing")
  /\ UNCHANGED <<dedup, staged, aborted, started, auth, viewFailed, recon,
                 sharedVars, disk, startVars, worldVars>>

\* The last look at admission and at the abort signal before the adapter runs.
MayDispatch(c) == ~aborted[c] /\ ~sealed

Ready(c) ==
  /\ Quiet
  /\ pc[c] = "ready"
  /\ \/ /\ MayDispatch(c)
        /\ started' = [started EXCEPT ![c] = TRUE]
        /\ Goto(c, "running")
     \/ /\ ~MayDispatch(c)
        /\ Goto(c, "failing")
        /\ UNCHANGED started
  /\ UNCHANGED <<dedup, mem, staged, aborted, auth, viewFailed, recon,
                 sharedVars, storeVars, startVars, worldVars>>

-----------------------------------------------------------------------------
(* The adapter at work.  It is free to send or not to send, to answer or to hang. *)

\* authorizeNativeMutation: the authorized gate is made durable before the
\* grant is handed out.
RequestAuthorization(c) ==
  /\ Quiet
  /\ pc[c] = "running"
  /\ auth[c] = "none" /\ ~aborted[c] /\ ~poisoned
  /\ auth' = [auth EXCEPT ![c] = "pending"]
  /\ Enqueue(c, "auth", [mem[c] EXCEPT !.gate = "send-authorized"])
  /\ UNCHANGED <<pc, dedup, mem, staged, aborted, started, viewFailed, recon,
                 sharedVars, disk, startVars, worldVars>>

\* bindNativeViewAdmission: the view guard refuses the send it was asked for.
ViewRefused(c) ==
  /\ Quiet
  /\ pc[c] = "running"
  /\ auth[c] = "granted" /\ viewFailed[c] = "no"
  /\ viewFailed' = [viewFailed EXCEPT ![c] = IF aborted[c] THEN "cancelled" ELSE "stale"]
  /\ UNCHANGED <<pc, dedup, mem, staged, aborted, started, auth, recon,
                 sharedVars, storeVars, startVars, worldVars>>

\* The native adapter sends a mutation with its grant; the abort signal is
\* looked at right before.  An operation may send several mutations.  One that
\* the helper rejects before starting it counts as never sent.
NativeSend(c) ==
  /\ Quiet
  /\ pc[c] = "running"
  /\ auth[c] = "granted" /\ ~aborted[c]
  /\ sent' = [sent EXCEPT ![c] = TRUE]
  /\ live' = [live EXCEPT ![c] = TRUE]
  /\ UNCHANGED <<handlerVars, sharedVars, storeVars, startVars, faults, crashes>>

\* The helper has finished or stopped the mutation and holds nothing for it.
\* It does so on its own, also when the runtime that asked for it is gone.
NativeStops(c) ==
  /\ Quiet
  /\ live[c]
  /\ live' = [live EXCEPT ![c] = FALSE]
  /\ UNCHANGED <<handlerVars, sharedVars, storeVars, startVars, sent, faults, crashes>>

\* assertNeverAttempted of the adapter's delivery record.
RefusedUnsent(c) == viewFailed[c] # "no" /\ ~sent[c]

ViewOutcome(c) == IF viewFailed[c] = "cancelled" THEN "cancelled" ELSE "failed"

Claims ==
  [state : {"completed", "failed"}, cleanup : {"complete", "unknown"}]
    \cup [state : {"cancelled"}, cleanup : {"complete"}]

Staged(state, cleanup, gate) == [state |-> state, cleanup |-> cleanup, gate |-> gate]

\* The adapter answers with what it believes of outcome and cleanup.  An error
\* after a refused view of an unsent mutation is known to have done nothing.
AdapterReturns(c) ==
  /\ Quiet
  /\ pc[c] = "running"
  /\ auth[c] # "pending"
  /\ \E claim \in Claims :
       staged' = [staged EXCEPT ![c] =
                    IF claim.state # "completed" /\ RefusedUnsent(c)
                      THEN Staged(ViewOutcome(c), "complete", mem[c].gate)
                      ELSE Staged(claim.state, claim.cleanup, mem[c].gate)]
  /\ Goto(c, "verifying")
  /\ UNCHANGED <<dedup, mem, aborted, started, auth, viewFailed, recon,
                 sharedVars, storeVars, startVars, worldVars>>

AdapterThrows(c) ==
  /\ Quiet
  /\ pc[c] = "running"
  /\ Goto(c, "failing")
  /\ UNCHANGED <<dedup, mem, staged, aborted, started, auth, viewFailed, recon,
                 sharedVars, storeVars, startVars, worldVars>>

-----------------------------------------------------------------------------
(* The end of the race: verification, final write, commit. *)

\* #verifyBackendCompletion: complete cleanup needs a terminal native status
\* without held input, or a mutation that was never attempted.  Incomplete
\* cleanup is believed unless the status contradicts it.
NativeConfirms(c) == staged[c].cleanup = "complete" => ~live[c]

\* Only a confirmed cancellation survives an abort.
Withdrawn(c) == aborted[c] /\ staged[c].state # "cancelled"

VerifyAccepts(c) ==
  /\ Quiet
  /\ pc[c] = "verifying"
  /\ NativeConfirms(c)
  /\ \/ /\ Withdrawn(c)
        /\ Goto(c, "failing")
        /\ UNCHANGED queue
     \/ /\ ~Withdrawn(c)
        /\ PersistOr(c, "committing", staged[c], "failing")
  /\ UNCHANGED <<dedup, mem, staged, aborted, started, auth, viewFailed, recon,
                 sharedVars, disk, startVars, worldVars>>

\* The status query failed, timed out or contradicts the claim.
VerifyRejects(c) ==
  /\ Quiet
  /\ pc[c] = "verifying"
  /\ Goto(c, "failing")
  /\ UNCHANGED <<dedup, mem, staged, aborted, started, auth, viewFailed, recon,
                 sharedVars, storeVars, startVars, worldVars>>

\* The leases of c after a cleanup: gone when complete, else quarantined.
SlotsAfter(c, cleanup) ==
  [r \in Resources |->
     IF slot[r].op # c THEN slot[r]
     ELSE IF cleanup = "complete" THEN FreeSlot ELSE Held(c, "quarantined")]

\* The terminal record is durable: cleanup commit and #settle.
Commit(c) ==
  /\ Quiet
  /\ pc[c] = "commit"
  /\ \/ /\ Withdrawn(c)
        /\ Goto(c, "failing")
        /\ UNCHANGED <<slot, mem>>
     \/ /\ ~Withdrawn(c)
        /\ slot' = SlotsAfter(c, staged[c].cleanup)
        /\ mem' = [mem EXCEPT ![c] = staged[c]]
        /\ Goto(c, "settled")
  /\ UNCHANGED <<dedup, staged, aborted, started, auth, viewFailed, recon,
                 sealed, poisoned, drain, storeVars, startVars, worldVars>>

\* What the abort guard is raced against.
Guarded == {"running", "verifying", "committing"}

\* createAbortGuard: after an abort the adapter, the verification and the
\* final write have the cancel grace period; then the handler goes on without.
GraceExpires(c) ==
  /\ Quiet
  /\ pc[c] \in Guarded
  /\ aborted[c]
  /\ Goto(c, "failing")
  /\ UNCHANGED <<dedup, mem, staged, aborted, started, auth, viewFailed, recon,
                 sharedVars, storeVars, startVars, worldVars>>

-----------------------------------------------------------------------------
(* The catch block of #execute. *)

\* Nothing was dispatched: the adapter never ran or its only send was refused.
NothingSent(c) == ~started[c] \/ RefusedUnsent(c)

CatchUnsent(c) ==
  /\ Quiet
  /\ pc[c] = "failing" /\ auth[c] # "pending"
  /\ NothingSent(c)
  /\ LET state == IF started[c] /\ viewFailed[c] = "cancelled" THEN "cancelled"
                  ELSE IF mem[c].state = "registered" THEN "rejected" ELSE "failed"
         rec == Staged(state, "complete", mem[c].gate)
     IN /\ staged' = [staged EXCEPT ![c] = rec]
        /\ PersistOr(c, "releasing", rec, "release")
        /\ sealed' = (sealed \/ poisoned)
  /\ UNCHANGED <<dedup, mem, aborted, started, auth, viewFailed, recon,
                 slot, poisoned, drain, disk, startVars, worldVars>>

\* Something may have been dispatched: the leases go to quarantine before the
\* outcome is written.
CatchUnknown(c) ==
  /\ Quiet
  /\ pc[c] = "failing" /\ auth[c] # "pending"
  /\ ~NothingSent(c)
  /\ LET rec == Staged("interrupted-unknown", "unknown", mem[c].gate)
     IN /\ staged' = [staged EXCEPT ![c] = rec]
        /\ PersistOr(c, "quarantining", rec, "settle")
        /\ sealed' = (sealed \/ poisoned)
  /\ slot' = SlotsAfter(c, "unknown")
  /\ UNCHANGED <<dedup, mem, aborted, started, auth, viewFailed, recon,
                 poisoned, drain, disk, startVars, worldVars>>

\* #settle, after the write of the catch block succeeded or failed.
Settle(c) ==
  /\ Quiet
  /\ pc[c] \in {"release", "settle"}
  /\ slot' = IF pc[c] = "release" THEN SlotsAfter(c, "complete") ELSE slot
  /\ mem' = [mem EXCEPT ![c] = staged[c]]
  /\ Goto(c, "settled")
  /\ UNCHANGED <<dedup, staged, aborted, started, auth, viewFailed, recon,
                 sealed, poisoned, drain, storeVars, startVars, worldVars>>

-----------------------------------------------------------------------------
(* Cancellation, reconciliation, drain. *)

\* The deadline timer, the caller's signal or the end of the client session.
Abort(c) ==
  /\ Quiet
  /\ c \in Active /\ ~aborted[c]
  /\ aborted' = [aborted EXCEPT ![c] = TRUE]
  /\ UNCHANGED <<pc, dedup, mem, staged, started, auth, viewFailed, recon,
                 sharedVars, storeVars, startVars, worldVars>>

\* cancelOperation shows "cancelling" in memory and aborts.
Cancel(c) ==
  /\ Quiet
  /\ c \in Active /\ mem[c].state # "cancelling"
  /\ mem' = [mem EXCEPT ![c].state = "cancelling"]
  /\ aborted' = [aborted EXCEPT ![c] = TRUE]
  /\ UNCHANGED <<pc, dedup, staged, started, auth, viewFailed, recon,
                 sharedVars, storeVars, startVars, worldVars>>

\* reconcileCleanup: a terminal native status releases quarantined leases,
\* once the cleaned record is durable.
Reconcile(c) ==
  /\ Quiet
  /\ pc[c] = "settled" /\ recon[c] = "none"
  /\ mem[c].state \in {"failed", "interrupted-unknown"}
  /\ mem[c].cleanup # "complete"
  /\ ~live[c] /\ ~poisoned
  /\ Enqueue(c, "reconcile", [mem[c] EXCEPT !.cleanup = "complete"])
  /\ recon' = [recon EXCEPT ![c] = "writing"]
  /\ UNCHANGED <<pc, dedup, mem, staged, aborted, started, auth, viewFailed,
                 sharedVars, disk, startVars, worldVars>>

ReconcileCommit(c) ==
  /\ Quiet
  /\ recon[c] = "written"
  /\ slot' = SlotsAfter(c, "complete")
  /\ mem' = [mem EXCEPT ![c].cleanup = "complete"]
  /\ recon' = [recon EXCEPT ![c] = "none"]
  /\ UNCHANGED <<pc, dedup, staged, aborted, started, auth, viewFailed,
                 sealed, poisoned, drain, storeVars, startVars, worldVars>>

\* The host seals admission by itself: permission flow, rotation, close.
Seal ==
  /\ Quiet
  /\ serving /\ ~sealed
  /\ sealed' = TRUE
  /\ UNCHANGED <<handlerVars, slot, poisoned, drain, storeVars, startVars, worldVars>>

\* unsealAdmission throws unless nothing is active, unknown or unrecovered.
MayUnseal(open, held) ==
  /\ ~poisoned /\ initialized
  /\ open = {} /\ ~held
  /\ Active = {} /\ QuarantinedSlots = {}

\* The host opens admission again unless it drains.
Unseal ==
  /\ Quiet
  /\ serving /\ sealed /\ drain.phase = "none" /\ MayUnseal(evidence, heldPending)
  /\ sealed' = FALSE
  /\ UNCHANGED <<handlerVars, slot, poisoned, drain, storeVars, startVars, worldVars>>

\* drainOperations seals, aborts what is active and waits for exactly that.
Drain ==
  /\ Quiet
  /\ MayDrain
  /\ serving /\ drain.phase \in {"none", "failed"}
  /\ drain' = [phase |-> "waiting", waits |-> Active]
  /\ sealed' = TRUE
  /\ aborted' = [c \in Calls |-> aborted[c] \/ c \in Active]
  /\ UNCHANGED <<pc, dedup, mem, staged, started, auth, viewFailed, recon,
                 slot, poisoned, storeVars, startVars, worldVars>>

\* What drainOperations reports once the operations it aborted are settled.
NothingLeft == QuarantinedSlots = {} /\ Active = {}

DrainEnds ==
  /\ Quiet
  /\ drain.phase = "waiting" /\ drain.waits \cap Active = {}
  /\ drain' = [phase |-> IF NothingLeft THEN "clean" ELSE "failed", waits |-> {}]
  /\ UNCHANGED <<handlerVars, slot, sealed, poisoned, storeVars, startVars, worldVars>>

-----------------------------------------------------------------------------
(* Durable writes.  Each operation has one write at the store at a time. *)

\* The part of the runtime that waits for the write with this tag is told
\* whether it succeeded.  A waiter that went on earlier is not told.
Waiting(c, tag) ==
  \/ tag \in WriteTags /\ pc[c] = tag
  \/ tag = "auth" /\ auth[c] = "pending"
  \/ tag = "reconcile" /\ recon[c] = "writing"
  \/ tag = "recover" /\ refresh.cur = c

AfterWrite(tag, ok) ==
  CASE tag = "registered"   -> IF ok THEN "check" ELSE "failing"
    [] tag = "dispatching"  -> IF ok THEN "ready" ELSE "failing"
    [] tag = "committing"   -> IF ok THEN "commit" ELSE "failing"
    [] tag = "releasing"    -> "release"
    [] tag = "quarantining" -> "settle"

\* A terminal record that could not be written seals admission.
SealsOnFailure(tag) == tag \in {"releasing", "quarantining"}

\* The grant is handed out only if the operation is still active once the
\* gate is durable.
StillActive(c) == ~aborted[c] /\ ~poisoned

Answer(c, tag, rec, ok) ==
  LET told == Waiting(c, tag) IN
  /\ pc' = IF told /\ tag \in WriteTags THEN [pc EXCEPT ![c] = AfterWrite(tag, ok)] ELSE pc
  /\ auth' = IF told /\ tag = "auth"
               THEN [auth EXCEPT ![c] = IF ok /\ StillActive(c) THEN "granted" ELSE "refused"]
               ELSE auth
  /\ recon' = IF told /\ tag = "reconcile"
                THEN [recon EXCEPT ![c] = IF ok THEN "written" ELSE "none"] ELSE recon
  /\ mem' = IF told /\ ok /\ tag = "auth" THEN [mem EXCEPT ![c].gate = rec.gate]
            ELSE IF told /\ ok /\ tag = "recover" THEN [mem EXCEPT ![c] = rec]
            ELSE mem
  /\ refresh' = IF ~(told /\ tag = "recover") THEN refresh
                ELSE IF ok THEN [refresh EXCEPT !.todo = @ \ {c}, !.cur = NoCall]
                ELSE NoRefresh

Finish(c, ok) ==
  LET w == Head(queue[c]) IN
  /\ queue' = [queue EXCEPT ![c] = Tail(@)]
  /\ Answer(c, w.tag, w.rec, ok)
  /\ sealed' = (sealed \/ (~ok /\ Waiting(c, w.tag) /\ SealsOnFailure(w.tag)))
  /\ UNCHANGED <<dedup, staged, aborted, started, viewFailed, slot, poisoned, drain,
                 initialized, serving, hist, evidence, heldPending, sent, live, crashes>>

AtStore(c) == queue[c] # <<>> /\ queue[c][1].attempt > 0

\* atomicReplace: the rename makes the new version visible ...
WriteLands(c) ==
  /\ Quiet
  /\ AtStore(c) /\ ~queue[c][1].renamed
  /\ Accepts(disk[c], queue[c][1].rec)
  /\ disk' = [disk EXCEPT ![c] = queue[c][1].rec]
  /\ queue' = [queue EXCEPT ![c][1].renamed = TRUE]
  /\ UNCHANGED <<handlerVars, sharedVars, startVars, worldVars>>

\* ... and the directory sync makes it safe.
WriteSynced(c) ==
  /\ Quiet
  /\ AtStore(c) /\ queue[c][1].renamed
  /\ Finish(c, TRUE)
  /\ UNCHANGED <<disk, faults>>

\* An attempt fails before or after the rename; it is repeated once with the
\* same revision unless the storage has been poisoned meanwhile.
WriteFails(c) ==
  /\ Quiet
  /\ AtStore(c)
  /\ faults < MaxFaults
  /\ faults' = faults + 1
  /\ \/ /\ queue[c][1].attempt = 1 /\ ~poisoned
        /\ queue' = [queue EXCEPT ![c][1].attempt = 2]
        /\ UNCHANGED <<handlerVars, sharedVars, startVars, sent, live, crashes>>
     \/ /\ queue[c][1].attempt = 2 \/ poisoned
        /\ Finish(c, FALSE)
  /\ UNCHANGED disk

\* The journal refuses the record, at the first attempt and at the second.
WriteRefused(c) ==
  /\ Quiet
  /\ AtStore(c) /\ ~queue[c][1].renamed
  /\ ~Accepts(disk[c], queue[c][1].rec)
  /\ Finish(c, FALSE)
  /\ UNCHANGED <<disk, faults>>

\* A write whose turn has come starts, unless the storage is poisoned.
WriteStarts(c) ==
  /\ Quiet
  /\ queue[c] # <<>> /\ queue[c][1].attempt = 0
  /\ \/ /\ ~poisoned
        /\ queue' = [queue EXCEPT ![c][1].attempt = 1]
        /\ UNCHANGED <<handlerVars, sharedVars, startVars, worldVars>>
     \/ /\ poisoned
        /\ Finish(c, FALSE)
        /\ UNCHANGED faults
  /\ UNCHANGED disk

\* #awaitDurable: the timer of a write fires.  The write itself stays at the
\* store and may still land.
DurableTimeout(c) ==
  /\ Quiet
  /\ \E i \in 1..Len(queue[c]) :
       LET w == queue[c][i] IN
       /\ ~poisoned \/ Waiting(c, w.tag)
       /\ Answer(c, w.tag, w.rec, FALSE)
  /\ poisoned' = TRUE
  /\ sealed' = TRUE
  /\ UNCHANGED <<dedup, staged, aborted, started, viewFailed, slot, drain, storeVars,
                 initialized, serving, hist, evidence, heldPending, worldVars>>

-----------------------------------------------------------------------------
(* Death of the runtime process and startup recovery. *)

\* Memory is gone; files and native helper stay.  A call that was under way
\* gets no answer.
Crash ==
  /\ Quiet
  /\ crashes < MaxCrashes
  /\ crashes' = crashes + 1
  /\ pc' = [c \in Calls |-> IF pc[c] = "idle" THEN "idle" ELSE "lost"]
  /\ hist' = {c \in Calls : disk[c] # NoRecord}
  /\ dedup' = [k \in Keys |-> NoCall]
  /\ mem' = [c \in Calls |-> NoRecord]
  /\ staged' = [c \in Calls |-> NoRecord]
  /\ aborted' = [c \in Calls |-> FALSE]
  /\ started' = [c \in Calls |-> FALSE]
  /\ auth' = [c \in Calls |-> "none"]
  /\ viewFailed' = [c \in Calls |-> "no"]
  /\ recon' = [c \in Calls |-> "none"]
  /\ slot' = [r \in Resources |-> FreeSlot]
  /\ sealed' = FALSE /\ poisoned' = FALSE /\ drain' = NoDrain
  /\ queue' = [c \in Calls |-> <<>>]
  /\ initialized' = FALSE /\ serving' = FALSE /\ evidence' = {} /\ heldPending' = FALSE
  /\ refresh' = NoRefresh
  /\ UNCHANGED <<disk, sent, live, faults>>

\* Two stored operations of one request key stop the start.
UniqueHistory == \A c, d \in hist : KeyOf[c] = KeyOf[d] => c = d

RestoredKeys ==
  [k \in Keys |-> IF \E c \in hist : KeyOf[c] = k
                  THEN CHOOSE c \in hist : KeyOf[c] = k ELSE NoCall]

\* initializeRecovery: evidence and request keys come back from the journal,
\* admission stays sealed until the first refresh has found nothing open.  The host
\* awaits this refresh before it listens; when it fails the host does not start.
Initialize ==
  /\ Quiet
  /\ ~initialized /\ UniqueHistory
  /\ initialized' = TRUE
  /\ sealed' = TRUE
  /\ mem' = [c \in Calls |-> IF c \in hist THEN disk[c] ELSE NoRecord]
  /\ dedup' = RestoredKeys
  /\ evidence' = {c \in hist : NeedsRecovery(disk[c])}
  /\ refresh' = [on |-> TRUE, reopen |-> TRUE, todo |-> evidence', left |-> {}, cur |-> NoCall]
  /\ UNCHANGED <<pc, staged, aborted, started, auth, viewFailed, recon, slot, poisoned,
                 drain, storeVars, serving, hist, heldPending, worldVars>>

\* refreshStartupRecovery on behalf of recover_startup_input.
RefreshStart ==
  /\ Quiet
  /\ serving /\ ~refresh.on
  /\ refresh' = [on |-> TRUE, reopen |-> (drain.phase = "none"), todo |-> evidence,
                 left |-> {}, cur |-> NoCall]
  /\ UNCHANGED <<handlerVars, sharedVars, storeVars, initialized, serving, hist, evidence,
                 heldPending, worldVars>>

\* receiptFor: an operation whose gate was never authorized sent nothing; an
\* authorized one needs proof that its native actor exited or holds nothing.
ReceiptFor(c) == mem[c].gate = "not-authorized" \/ ~live[c]

\* No receipt yet: actor metadata, exit or all-up evidence is missing.
RefreshKeeps(c) ==
  /\ Quiet
  /\ refresh.on /\ refresh.cur = NoCall /\ c \in refresh.todo
  /\ refresh' = [refresh EXCEPT !.todo = @ \ {c}, !.left = @ \cup {c}]
  /\ UNCHANGED <<handlerVars, sharedVars, storeVars, initialized, serving, hist, evidence,
                 heldPending, worldVars>>

\* The restored record: terminal, with complete cleanup.
Restored(r) ==
  [r EXCEPT !.state = IF IsTerminal(r) THEN @ ELSE "interrupted-unknown",
            !.cleanup = "complete"]

RefreshWrites(c) ==
  /\ Quiet
  /\ refresh.on /\ refresh.cur = NoCall /\ c \in refresh.todo
  /\ ReceiptFor(c)
  /\ \/ /\ ~poisoned
        /\ Enqueue(c, "recover", Restored(mem[c]))
        /\ refresh' = [refresh EXCEPT !.cur = c]
     \/ /\ poisoned
        /\ refresh' = NoRefresh
        /\ UNCHANGED queue
  /\ UNCHANGED <<handlerVars, sharedVars, disk, initialized, serving, hist, evidence,
                 heldPending, worldVars>>

\* The held-input ledgers are asked once more before admission opens.
RefreshEnds ==
  /\ Quiet
  /\ refresh.on /\ refresh.cur = NoCall /\ refresh.todo = {}
  /\ evidence' = refresh.left
  /\ heldPending' = (\E c \in hist : live[c])
  /\ sealed' = IF refresh.reopen /\ MayUnseal(evidence', heldPending') THEN FALSE
               ELSE sealed \/ evidence' # {} \/ heldPending'
  /\ refresh' = NoRefresh
  /\ serving' = TRUE
  /\ UNCHANGED <<handlerVars, slot, poisoned, drain, storeVars, initialized, hist, worldVars>>

-----------------------------------------------------------------------------
Handler(c) ==
  \/ Submit(c) \/ Admit(c) \/ TargetStale(c) \/ Check(c) \/ Ready(c)
  \/ VerifyAccepts(c) \/ VerifyRejects(c) \/ Commit(c) \/ GraceExpires(c)
  \/ CatchUnsent(c) \/ CatchUnknown(c) \/ Settle(c)
  \/ Abort(c) \/ Cancel(c) \/ Reconcile(c) \/ ReconcileCommit(c)

Adapter(c) ==
  \/ RequestAuthorization(c) \/ ViewRefused(c) \/ NativeSend(c) \/ NativeStops(c)
  \/ AdapterReturns(c) \/ AdapterThrows(c)

Store(c) ==
  \/ WriteLands(c) \/ WriteSynced(c) \/ WriteFails(c) \/ WriteRefused(c)
  \/ WriteStarts(c) \/ DurableTimeout(c)

Host ==
  \/ Seal \/ Unseal \/ Drain \/ DrainEnds
  \/ Crash \/ Initialize \/ RefreshStart \/ RefreshEnds
  \/ \E c \in Calls : RefreshKeeps(c) \/ RefreshWrites(c)

Next == Host \/ \E c \in Calls : Handler(c) \/ Adapter(c) \/ Store(c)

Spec == Init /\ [][Next]_vars

\* What the code's own promises and timers guarantee: microtasks and resolved
\* promises run, the deadline, grace, status and durable-write timers fire.
\* Nothing is assumed of the adapter, the store, the native helper or a caller.
Continues(c) ==
  \/ Admit(c) \/ TargetStale(c) \/ Check(c) \/ Ready(c)
  \/ VerifyAccepts(c) \/ VerifyRejects(c) \/ Commit(c)
  \/ CatchUnsent(c) \/ CatchUnknown(c) \/ Settle(c)

Fairness ==
  /\ \A c \in Calls :
       /\ WF_vars(Continues(c))
       /\ WF_vars(Abort(c))
       /\ WF_vars(GraceExpires(c))
       /\ WF_vars(DurableTimeout(c))
  /\ WF_vars(DrainEnds)

LiveSpec == Spec /\ Fairness
=============================================================================
