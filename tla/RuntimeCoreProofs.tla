-------------------------- MODULE RuntimeCoreProofs --------------------------
(***************************************************************************)
(* Proofs about RuntimeCore for any number of calls, keys and resources:   *)
(* first types, leases and answers; then effects, the journal, the leases   *)
(* and startup recovery, for which the invariant is strengthened by what    *)
(* holds of the writes on their way, of the journal, and of what may act.   *)
(* From it follow what a step may never do, and that the runtime implements *)
(* ExclusiveEffects.                                                       *)
(***************************************************************************)
EXTENDS RuntimeCoreProperties, SequenceTheorems, TLAPS

-----------------------------------------------------------------------------
(* The inductive invariant. *)

\* What the place of a handler says about its records.
HandlerInv ==
  \A c \in Calls :
    /\ pc[c] \in Unsettled \cup {"settled"} => mem[c] \in Record
    /\ pc[c] \in Unsettled => mem[c].cleanup = "pending"
    /\ pc[c] \in {"verifying", "committing", "commit"} => staged[c] \in Record
    /\ pc[c] \in {"releasing", "release"} => staged[c] \in Record /\ staged[c].cleanup = "complete"
    /\ pc[c] \in {"quarantining", "settle"} => staged[c] \in Record /\ staged[c].cleanup = "unknown"
    /\ auth[c] = "pending" => pc[c] \in {"running", "failing"}
    /\ recon[c] # "none" => pc[c] = "settled" /\ mem[c] \in Record /\ mem[c].cleanup # "complete"

\* A handler that has registered nothing has written nothing, ...
Empty == {"idle", "resolving", "joined", "mismatch", "expired", "refused", "busy"}

\* ... nothing is registered before recovery has read the journal, and what
\* recovery works on are operations of dead handlers.
EpochInv ==
  /\ \A c \in Calls : pc[c] \in Empty => disk[c] = NoRecord /\ queue[c] = <<>>
  /\ \A c \in hist : pc[c] = "lost" /\ disk[c] \in Record
  /\ evidence \subseteq hist /\ refresh.todo \subseteq hist /\ refresh.left \subseteq hist
  /\ refresh.cur \in hist \cup {NoCall}
  /\ ~initialized => \A c \in Calls : pc[c] \notin Unsettled \cup {"resolving", "settled"}

IInv == TypeOK /\ HandlerInv /\ EpochInv /\ LeasesFollowOperations

USE DEF vars, handlerVars, sharedVars, storeVars, startVars, worldVars

-----------------------------------------------------------------------------
(* Records, writes, slots. *)

\* A record with one fact replaced is a record.
LEMMA RecordUpdate ==
  ASSUME NEW r \in Record
  PROVE  /\ \A s \in OperationStates : [r EXCEPT !.state = s] \in Record
         /\ \A k \in CleanupStates : [r EXCEPT !.cleanup = k] \in Record
         /\ \A g \in SendGates : [r EXCEPT !.gate = g] \in Record
         /\ \A t \in OperationStates : [r EXCEPT !.state = t].cleanup = r.cleanup
         /\ \A t \in SendGates : [r EXCEPT !.gate = t].cleanup = r.cleanup
         /\ [r EXCEPT !.cleanup = "complete"].cleanup = "complete"
         /\ r.state \in OperationStates /\ r.cleanup \in CleanupStates /\ r.gate \in SendGates
  BY DEF Record

\* What records and the missing record are.
LEMMA RecordFacts ==
  /\ Registered \in Record
  /\ Record \subseteq StoredRecord /\ NoRecord \in StoredRecord /\ NoRecord \notin Record
  /\ \A r \in StoredRecord : r.gate \in SendGates /\ r.cleanup \in CleanupStates /\ (r # NoRecord => r \in Record)
  /\ \A s \in OperationStates, k \in CleanupStates, g \in SendGates : Staged(s, k, g) \in Record
  BY DEF Record, StoredRecord, NoRecord, Registered, Staged, OperationStates, CleanupStates, SendGates

\* Startup recovery writes a record with complete cleanup.
LEMMA RestoredType ==
  ASSUME NEW r \in StoredRecord
  PROVE  Restored(r) \in Record /\ Restored(r).cleanup = "complete"
<1> DEFINE s == IF IsTerminal(r) THEN r.state ELSE "interrupted-unknown"
<1>1. r \in [state : OperationStates \cup {"absent"}, cleanup : CleanupStates, gate : SendGates]
  BY DEF Record, StoredRecord, NoRecord, CleanupStates, SendGates
<1>2. s \in OperationStates
  BY DEF IsTerminal, TerminalStates, OperationStates
<1>3. Restored(r) = [r EXCEPT !.state = s, !.cleanup = "complete"]
  BY DEF Restored
<1>4. \A t \in OperationStates : [r EXCEPT !.state = t, !.cleanup = "complete"] \in Record
                              /\ [r EXCEPT !.state = t, !.cleanup = "complete"].cleanup = "complete"
  BY <1>1 DEF Record, CleanupStates
<1> HIDE DEF s
<1> QED
  BY <1>2, <1>3, <1>4

\* A write handed to the store.
LEMMA WriteType ==
  ASSUME NEW tag \in Tags, NEW rec \in Record, NEW q PROVE Write(tag, rec, q) \in DurableWrite
  BY DEF Write, DurableWrite

\* A queue with one more write.
LEMMA EnqueueType ==
  ASSUME queue \in [Calls -> Seq(DurableWrite)], NEW c \in Calls, NEW tag \in Tags, NEW rec \in Record,
         Enqueue(c, tag, rec)
  PROVE  queue' \in [Calls -> Seq(DurableWrite)]
<1>1. Write(tag, rec, queue[c]) \in DurableWrite
  BY WriteType
<1>2. Append(queue[c], Write(tag, rec, queue[c])) \in Seq(DurableWrite)
  BY <1>1
<1> QED
  BY <1>2 DEF Enqueue

\* The places of a handler.
LEMMA PCFacts ==
  /\ WriteTags \subseteq Unsettled /\ Unsettled \subseteq PCs /\ Answered \subseteq PCs
  /\ {"idle", "resolving", "settled"} \subseteq PCs
  /\ WriteTags \subseteq Tags
  BY DEF WriteTags, Unsettled, Answered, PCs, Tags

\* #persist leaves its caller at a known place.
LEMMA PersistOrType ==
  ASSUME TypeOK, NEW c \in Calls, NEW tag \in WriteTags, NEW rec \in Record, NEW p \in PCs,
         PersistOr(c, tag, rec, p)
  PROVE  pc' \in [Calls -> PCs] /\ queue' \in [Calls -> Seq(DurableWrite)]
<1>1. CASE poisoned
  BY <1>1 DEF PersistOr, Goto, TypeOK
<1>2. CASE ~poisoned
  <2>1. queue' \in [Calls -> Seq(DurableWrite)]
    BY <1>2, EnqueueType, PCFacts DEF PersistOr, TypeOK
  <2>2. tag \in PCs
    BY PCFacts
  <2>3. pc' = [pc EXCEPT ![c] = tag]
    BY <1>2 DEF PersistOr, Goto
  <2> QED
    BY <2>1, <2>2, <2>3 DEF TypeOK
<1> QED
  BY <1>1, <1>2

\* The slots after a cleanup.
LEMMA SlotsType ==
  ASSUME TypeOK, NEW c \in Calls, NEW k PROVE SlotsAfter(c, k) \in [Resources -> Slot]
  BY DEF TypeOK, SlotsAfter, Slot, FreeSlot, Held

\* A durable answer leaves the handler inside its operation.
LEMMA AfterWriteType == \A tag \in WriteTags, ok \in BOOLEAN : AfterWrite(tag, ok) \in Unsettled
  BY DEF AfterWrite, WriteTags, Unsettled

-----------------------------------------------------------------------------
(* One lemma for each action: it preserves the invariant. *)

\* The leases of an operation, resource by resource.
LEMMA LeasesAre ==
  ASSUME LeasesFollowOperations
  PROVE  \A c \in Calls, r \in Resources : slot[r].op = c <=> Owes(c) /\ r \in Needs[c]
  BY CoreAssumption DEF LeasesFollowOperations

\* A step that neither moves a slot nor settles an operation.
LEMMA LeasesKept ==
  ASSUME LeasesFollowOperations, slot' = slot, \A c \in Calls : Owes(c)' <=> Owes(c)
  PROVE  LeasesFollowOperations'
  BY DEF LeasesFollowOperations

\* A call is answered at once or goes on to its target; it owns nothing yet.
LEMMA SubmitStep == ASSUME IInv, NEW c \in Calls, Submit(c) PROVE IInv'
<1>1. TypeOK'
  <2>1. PICK p \in PCs : pc' = [pc EXCEPT ![c] = p]
    BY DEF Submit, Goto, PCs, Answered
  <2>2. pc' \in [Calls -> PCs]
    BY <2>1 DEF IInv, TypeOK
  <2> QED
    BY <2>2 DEF IInv, TypeOK, Submit
<1>2. HandlerInv'
  BY DEF IInv, TypeOK, HandlerInv, Submit, Goto, PCs, Answered, WriteTags, Unsettled
<1>3. EpochInv'
  <2>1. PICK p \in {"mismatch", "expired", "joined", "refused", "resolving"} :
          /\ pc' = [pc EXCEPT ![c] = p]
          /\ p = "resolving" => initialized
    BY DEF Submit, Goto
  <2>2. /\ pc \in [Calls -> PCs] /\ pc[c] = "idle"
        /\ UNCHANGED <<dedup, mem, staged, aborted, started, auth, viewFailed, recon,
                       sharedVars, storeVars, startVars, worldVars>>
    BY DEF Submit, IInv, TypeOK
  <2> QED
    BY <2>1, <2>2 DEF IInv, EpochInv, Empty, PCs, Answered, WriteTags, Unsettled
<1>4. LeasesFollowOperations'
  BY LeasesKept DEF IInv, TypeOK, Submit, Goto, PCs, Answered, Owes, Active, WriteTags, Unsettled
<1> QED
  BY <1>1, <1>2, <1>3, <1>4 DEF IInv

\* A call without target ends before it owns anything.
LEMMA TargetStaleStep == ASSUME IInv, NEW c \in Calls, TargetStale(c) PROVE IInv'
<1>1. TypeOK'
  BY CoreAssumption DEF IInv, TypeOK, TargetStale, Goto, PCs, Answered, WriteTags, Unsettled
<1>2. HandlerInv'
  BY DEF IInv, TypeOK, HandlerInv, TargetStale, Goto, PCs, Answered, WriteTags, Unsettled
<1>3. EpochInv'
  BY DEF IInv, TypeOK, EpochInv, Empty, TargetStale, Goto, PCs, Answered, WriteTags, Unsettled
<1>4. LeasesFollowOperations'
  BY LeasesKept DEF IInv, TypeOK, TargetStale, Goto, PCs, Answered, Owes, Active, WriteTags, Unsettled
<1> QED
  BY <1>1, <1>2, <1>3, <1>4 DEF IInv

\* The adapter starts, or the handler fails.
LEMMA ReadyStep == ASSUME IInv, NEW c \in Calls, Ready(c) PROVE IInv'
<1>1. TypeOK'
  BY CoreAssumption DEF IInv, TypeOK, Ready, Goto, MayDispatch, PCs, WriteTags, Unsettled
<1>2. HandlerInv'
  BY DEF IInv, TypeOK, HandlerInv, Ready, Goto, MayDispatch, PCs, WriteTags, Unsettled
<1>3. EpochInv'
  BY DEF IInv, TypeOK, EpochInv, Empty, Ready, Goto, MayDispatch, PCs, WriteTags, Unsettled
<1>4. LeasesFollowOperations'
  BY LeasesKept DEF IInv, TypeOK, Ready, Goto, MayDispatch, PCs, Owes, Active, WriteTags, Unsettled
<1> QED
  BY <1>1, <1>2, <1>3, <1>4 DEF IInv

\* The handler goes on without its adapter and keeps its leases.
LEMMA GraceExpiresStep == ASSUME IInv, NEW c \in Calls, GraceExpires(c) PROVE IInv'
<1>1. TypeOK'
  BY CoreAssumption DEF IInv, TypeOK, GraceExpires, Goto, Guarded, PCs, WriteTags, Unsettled
<1>2. HandlerInv'
  BY DEF IInv, TypeOK, HandlerInv, GraceExpires, Goto, Guarded, PCs, WriteTags, Unsettled
<1>3. EpochInv'
  BY DEF IInv, TypeOK, EpochInv, Empty, GraceExpires, Goto, Guarded, PCs, WriteTags, Unsettled
<1>4. LeasesFollowOperations'
  BY LeasesKept DEF IInv, TypeOK, GraceExpires, Goto, Guarded, PCs, Owes, Active, WriteTags, Unsettled
<1> QED
  BY <1>1, <1>2, <1>3, <1>4 DEF IInv

\* An unverified answer sends the handler to its catch block.
LEMMA VerifyRejectsStep == ASSUME IInv, NEW c \in Calls, VerifyRejects(c) PROVE IInv'
<1>1. TypeOK'
  BY CoreAssumption DEF IInv, TypeOK, VerifyRejects, Goto, PCs, WriteTags, Unsettled
<1>2. HandlerInv'
  BY DEF IInv, TypeOK, HandlerInv, VerifyRejects, Goto, PCs, WriteTags, Unsettled
<1>3. EpochInv'
  BY DEF IInv, TypeOK, EpochInv, Empty, VerifyRejects, Goto, PCs, WriteTags, Unsettled
<1>4. LeasesFollowOperations'
  BY LeasesKept DEF IInv, TypeOK, VerifyRejects, Goto, PCs, Owes, Active, WriteTags, Unsettled
<1> QED
  BY <1>1, <1>2, <1>3, <1>4 DEF IInv

\* The abort signal alone moves nothing.
LEMMA AbortStep == ASSUME IInv, NEW c \in Calls, Abort(c) PROVE IInv'
<1>1. TypeOK'
  BY CoreAssumption DEF IInv, TypeOK, Abort, WriteTags, Unsettled
<1>2. HandlerInv'
  BY DEF IInv, TypeOK, HandlerInv, Abort, WriteTags, Unsettled
<1>3. EpochInv'
  BY DEF IInv, TypeOK, EpochInv, Empty, Abort, WriteTags, Unsettled
<1>4. LeasesFollowOperations'
  BY LeasesKept DEF IInv, TypeOK, Abort, Owes, Active, WriteTags, Unsettled
<1> QED
  BY <1>1, <1>2, <1>3, <1>4 DEF IInv

\* A refused view is only remembered.
LEMMA ViewRefusedStep == ASSUME IInv, NEW c \in Calls, ViewRefused(c) PROVE IInv'
<1>1. TypeOK'
  BY CoreAssumption DEF IInv, TypeOK, ViewRefused, WriteTags, Unsettled
<1>2. HandlerInv'
  BY DEF IInv, TypeOK, HandlerInv, ViewRefused, WriteTags, Unsettled
<1>3. EpochInv'
  BY DEF IInv, TypeOK, EpochInv, Empty, ViewRefused, WriteTags, Unsettled
<1>4. LeasesFollowOperations'
  BY LeasesKept DEF IInv, TypeOK, ViewRefused, Owes, Active, WriteTags, Unsettled
<1> QED
  BY <1>1, <1>2, <1>3, <1>4 DEF IInv

\* A mutation leaves the runtime under a grant.
LEMMA NativeSendStep == ASSUME IInv, NEW c \in Calls, NativeSend(c) PROVE IInv'
<1>1. TypeOK'
  BY CoreAssumption DEF IInv, TypeOK, NativeSend, WriteTags, Unsettled
<1>2. HandlerInv'
  BY DEF IInv, TypeOK, HandlerInv, NativeSend, WriteTags, Unsettled
<1>3. EpochInv'
  BY DEF IInv, TypeOK, EpochInv, Empty, NativeSend, WriteTags, Unsettled
<1>4. LeasesFollowOperations'
  BY LeasesKept DEF IInv, TypeOK, NativeSend, Owes, Active, WriteTags, Unsettled
<1> QED
  BY <1>1, <1>2, <1>3, <1>4 DEF IInv

\* The helper comes to rest.
LEMMA NativeStopsStep == ASSUME IInv, NEW c \in Calls, NativeStops(c) PROVE IInv'
<1>1. TypeOK'
  BY CoreAssumption DEF IInv, TypeOK, NativeStops, WriteTags, Unsettled
<1>2. HandlerInv'
  BY DEF IInv, TypeOK, HandlerInv, NativeStops, WriteTags, Unsettled
<1>3. EpochInv'
  BY DEF IInv, TypeOK, EpochInv, Empty, NativeStops, WriteTags, Unsettled
<1>4. LeasesFollowOperations'
  BY LeasesKept DEF IInv, TypeOK, NativeStops, Owes, Active, WriteTags, Unsettled
<1> QED
  BY <1>1, <1>2, <1>3, <1>4 DEF IInv

\* An exception of the adapter sends the handler to its catch block.
LEMMA AdapterThrowsStep == ASSUME IInv, NEW c \in Calls, AdapterThrows(c) PROVE IInv'
<1>1. TypeOK'
  BY CoreAssumption DEF IInv, TypeOK, AdapterThrows, Goto, PCs, WriteTags, Unsettled
<1>2. HandlerInv'
  BY DEF IInv, TypeOK, HandlerInv, AdapterThrows, Goto, PCs, WriteTags, Unsettled
<1>3. EpochInv'
  BY DEF IInv, TypeOK, EpochInv, Empty, AdapterThrows, Goto, PCs, WriteTags, Unsettled
<1>4. LeasesFollowOperations'
  BY LeasesKept DEF IInv, TypeOK, AdapterThrows, Goto, PCs, Owes, Active, WriteTags, Unsettled
<1> QED
  BY <1>1, <1>2, <1>3, <1>4 DEF IInv

\* Recovery leaves an operation without receipt for later.
LEMMA RefreshKeepsStep == ASSUME IInv, NEW c \in Calls, RefreshKeeps(c) PROVE IInv'
<1>1. TypeOK'
  BY CoreAssumption DEF IInv, TypeOK, RefreshKeeps, Refresh, WriteTags, Unsettled
<1>2. HandlerInv'
  BY DEF IInv, TypeOK, HandlerInv, RefreshKeeps, Refresh, WriteTags, Unsettled
<1>3. EpochInv'
  BY DEF IInv, TypeOK, EpochInv, Empty, RefreshKeeps, Refresh, WriteTags, Unsettled
<1>4. LeasesFollowOperations'
  BY LeasesKept DEF IInv, TypeOK, RefreshKeeps, Refresh, Owes, Active, WriteTags, Unsettled
<1> QED
  BY <1>1, <1>2, <1>3, <1>4 DEF IInv

\* The host closes admission.
LEMMA SealStep == ASSUME IInv, Seal PROVE IInv'
<1>1. TypeOK'
  BY CoreAssumption DEF IInv, TypeOK, Seal, WriteTags, Unsettled
<1>2. HandlerInv'
  BY DEF IInv, TypeOK, HandlerInv, Seal, WriteTags, Unsettled
<1>3. EpochInv'
  BY DEF IInv, TypeOK, EpochInv, Empty, Seal, WriteTags, Unsettled
<1>4. LeasesFollowOperations'
  BY LeasesKept DEF IInv, TypeOK, Seal, Owes, Active, WriteTags, Unsettled
<1> QED
  BY <1>1, <1>2, <1>3, <1>4 DEF IInv

\* The host opens admission.
LEMMA UnsealStep == ASSUME IInv, Unseal PROVE IInv'
<1>1. TypeOK'
  BY CoreAssumption DEF IInv, TypeOK, Unseal, WriteTags, Unsettled
<1>2. HandlerInv'
  BY DEF IInv, TypeOK, HandlerInv, Unseal, WriteTags, Unsettled
<1>3. EpochInv'
  BY DEF IInv, TypeOK, EpochInv, Empty, Unseal, WriteTags, Unsettled
<1>4. LeasesFollowOperations'
  BY LeasesKept DEF IInv, TypeOK, Unseal, Owes, Active, WriteTags, Unsettled
<1> QED
  BY <1>1, <1>2, <1>3, <1>4 DEF IInv

\* A drain aborts what is active and frees nothing.
LEMMA DrainStep == ASSUME IInv, Drain PROVE IInv'
<1>1. TypeOK'
  BY CoreAssumption DEF IInv, TypeOK, Drain, Active, WriteTags, Unsettled
<1>2. HandlerInv'
  BY DEF IInv, TypeOK, HandlerInv, Drain, Active, WriteTags, Unsettled
<1>3. EpochInv'
  BY DEF IInv, TypeOK, EpochInv, Empty, Drain, Active, WriteTags, Unsettled
<1>4. LeasesFollowOperations'
  BY LeasesKept DEF IInv, TypeOK, Drain, Owes, Active, WriteTags, Unsettled
<1> QED
  BY <1>1, <1>2, <1>3, <1>4 DEF IInv

\* The verdict of a drain.
LEMMA DrainEndsStep == ASSUME IInv, DrainEnds PROVE IInv'
<1>1. TypeOK'
  BY CoreAssumption DEF IInv, TypeOK, DrainEnds, WriteTags, Unsettled
<1>2. HandlerInv'
  BY DEF IInv, TypeOK, HandlerInv, DrainEnds, WriteTags, Unsettled
<1>3. EpochInv'
  BY DEF IInv, TypeOK, EpochInv, Empty, DrainEnds, WriteTags, Unsettled
<1>4. LeasesFollowOperations'
  BY LeasesKept DEF IInv, TypeOK, DrainEnds, Owes, Active, WriteTags, Unsettled
<1> QED
  BY <1>1, <1>2, <1>3, <1>4 DEF IInv

\* A new round of recovery works on operations of earlier epochs only.
LEMMA RefreshStartStep == ASSUME IInv, RefreshStart PROVE IInv'
<1>1. TypeOK'
  BY CoreAssumption DEF IInv, TypeOK, RefreshStart, Refresh, WriteTags, Unsettled
<1>2. HandlerInv'
  BY DEF IInv, TypeOK, HandlerInv, RefreshStart, Refresh, WriteTags, Unsettled
<1>3. EpochInv'
  BY DEF IInv, TypeOK, EpochInv, Empty, RefreshStart, Refresh, WriteTags, Unsettled
<1>4. LeasesFollowOperations'
  BY LeasesKept DEF IInv, TypeOK, RefreshStart, Refresh, Owes, Active, WriteTags, Unsettled
<1> QED
  BY <1>1, <1>2, <1>3, <1>4 DEF IInv

\* What a round of recovery left is evidence for the next.
LEMMA RefreshEndsStep == ASSUME IInv, RefreshEnds PROVE IInv'
<1>1. TypeOK'
  BY CoreAssumption DEF IInv, TypeOK, RefreshEnds, Refresh, NoRefresh, WriteTags, Unsettled
<1>2. HandlerInv'
  BY DEF IInv, TypeOK, HandlerInv, RefreshEnds, Refresh, NoRefresh, WriteTags, Unsettled
<1>3. EpochInv'
  BY DEF IInv, TypeOK, EpochInv, Empty, RefreshEnds, Refresh, NoRefresh, WriteTags, Unsettled
<1>4. LeasesFollowOperations'
  BY LeasesKept DEF IInv, TypeOK, RefreshEnds, Refresh, NoRefresh, Owes, Active, WriteTags, Unsettled
<1> QED
  BY <1>1, <1>2, <1>3, <1>4 DEF IInv

\* Settling with complete cleanup drops the leases of c and no other.
LEMMA LeasesDropped ==
  ASSUME LeasesFollowOperations, NEW c \in Calls, slot' = SlotsAfter(c, "complete"),
         ~Owes(c)', \A d \in Calls \ {c} : Owes(d)' <=> Owes(d)
  PROVE  LeasesFollowOperations'
<1>1. \A d \in Calls, r \in Resources : slot'[r].op = d <=> d # c /\ slot[r].op = d
  BY CoreAssumption DEF SlotsAfter, FreeSlot
<1>2. \A d \in Calls : {r \in Resources : slot'[r].op = d} =
                        IF d = c THEN {} ELSE {r \in Resources : slot[r].op = d}
  BY <1>1
<1> QED
  BY <1>2 DEF LeasesFollowOperations

\* Quarantine keeps every lease with its operation.
LEMMA LeasesQuarantined ==
  ASSUME LeasesFollowOperations, NEW c \in Calls, slot' = SlotsAfter(c, "unknown"),
         \A d \in Calls : Owes(d)' <=> Owes(d)
  PROVE  LeasesFollowOperations'
<1>1. \A d \in Calls, r \in Resources : slot'[r].op = d <=> slot[r].op = d
  BY DEF SlotsAfter, Held
<1>2. \A d \in Calls : {r \in Resources : slot'[r].op = d} = {r \in Resources : slot[r].op = d}
  BY <1>1
<1> QED
  BY <1>2 DEF LeasesFollowOperations

\* What #persist does to its caller: it waits at the tag, or has failed.
LEMMA PersistOrEffect ==
  ASSUME TypeOK, NEW c \in Calls, NEW tag \in WriteTags, NEW rec, NEW p,
         PersistOr(c, tag, rec, p)
  PROVE  /\ pc' = [pc EXCEPT ![c] = tag] \/ pc' = [pc EXCEPT ![c] = p]
         /\ \A d \in Calls \ {c} : queue'[d] = queue[d]
  BY DEF PersistOr, Enqueue, Goto, TypeOK

\* A handler that goes on, with perhaps one more write of its own, leaves the
\* epoch alone.
LEMMA EpochKept ==
  ASSUME TypeOK, EpochInv, NEW c \in Calls, pc[c] \in Unsettled \cup {"resolving", "settled"},
         NEW p \in Unsettled \cup {"settled"}, pc' = [pc EXCEPT ![c] = p],
         \A d \in Calls \ {c} : queue'[d] = queue[d], UNCHANGED <<disk, startVars>>
  PROVE  EpochInv'
<1>1. p \notin Empty /\ p # "lost" /\ pc[c] # "lost"
  BY DEF Empty, Unsettled, WriteTags
<1>2. initialized /\ c \notin hist
  BY <1>1 DEF EpochInv
<1>3. pc'[c] = p /\ \A d \in Calls \ {c} : pc'[d] = pc[d]
  BY DEF TypeOK
<1>4. \A d \in Calls : pc'[d] \in Empty => disk'[d] = NoRecord /\ queue'[d] = <<>>
  BY <1>1, <1>3 DEF EpochInv
<1>5. \A d \in hist' : pc'[d] = "lost" /\ disk'[d] \in Record
  BY <1>2, <1>3 DEF EpochInv, TypeOK
<1> QED
  BY <1>2, <1>4, <1>5 DEF EpochInv

\* Admission takes the leases, the key and the first write in one step.
LEMMA AdmitStep == ASSUME IInv, NEW c \in Calls, Admit(c) PROVE IInv'
<1> USE DEF IInv
<1>1. CASE ~AllFree(c)
  <2>1. /\ pc[c] = "resolving" /\ pc' = [pc EXCEPT ![c] = "busy"]
        /\ UNCHANGED <<slot, dedup, mem, queue, staged, aborted, started, auth, viewFailed, recon,
                 sealed, poisoned, drain, disk, startVars, worldVars>>
    BY <1>1 DEF Admit, Goto
  <2>2. TypeOK'
    BY <2>1 DEF TypeOK, PCs, Answered
  <2>3. HandlerInv'
    BY <2>1 DEF TypeOK, HandlerInv, WriteTags, Unsettled
  <2>4. EpochInv'
    BY <2>1 DEF TypeOK, EpochInv, Empty, WriteTags, Unsettled
  <2>5. LeasesFollowOperations'
    BY <2>1, LeasesKept DEF TypeOK, Owes, Active, WriteTags, Unsettled
  <2> QED
    BY <2>2, <2>3, <2>4, <2>5
<1>2. CASE AllFree(c)
  <2>1. /\ pc[c] = "resolving"
        /\ slot' = [r \in Resources |-> IF r \in Needs[c] THEN Held(c, "active") ELSE slot[r]]
        /\ dedup' = [dedup EXCEPT ![KeyOf[c]] = c]
        /\ mem' = [mem EXCEPT ![c] = Registered]
        /\ PersistOr(c, "registered", Registered, "failing")
        /\ UNCHANGED <<staged, aborted, started, auth, viewFailed, recon,
                 sealed, poisoned, drain, disk, startVars, worldVars>>
    BY <1>2 DEF Admit
  <2>2. /\ pc' = [pc EXCEPT ![c] = "registered"] \/ pc' = [pc EXCEPT ![c] = "failing"]
        /\ \A d \in Calls \ {c} : queue'[d] = queue[d]
    BY <2>1, PersistOrEffect DEF WriteTags
  <2>3. TypeOK'
    <3>1. pc' \in [Calls -> PCs] /\ queue' \in [Calls -> Seq(DurableWrite)]
      BY <2>1, PersistOrType, RecordFacts DEF WriteTags, PCs, Unsettled
    <3>2. slot' \in [Resources -> Slot]
      BY <2>1 DEF TypeOK, Held, Slot
    <3>3. mem' \in [Calls -> StoredRecord]
      BY <2>1, RecordFacts DEF TypeOK
    <3> QED
      BY <2>1, <3>1, <3>2, <3>3, CoreAssumption DEF TypeOK
  <2>4. HandlerInv'
    <3>1. Registered \in Record /\ Registered.cleanup = "pending"
      BY RecordFacts DEF Registered
    <3> QED
      BY <2>1, <2>2, <3>1 DEF TypeOK, HandlerInv, WriteTags, Unsettled
  <2>5. EpochInv'
    <3>1. PICK p \in {"registered", "failing"} : pc' = [pc EXCEPT ![c] = p]
      BY <2>2
    <3>2. p \in Unsettled
      BY DEF Unsettled, WriteTags
    <3> QED
      BY <2>1, <2>2, <3>1, <3>2, EpochKept
  <2>6. LeasesFollowOperations'
    <3>1. \A d \in Calls, r \in Resources : slot[r].op = d <=> Owes(d) /\ r \in Needs[d]
      BY LeasesAre
    <3>2. \A r \in Needs[c] : r \in Resources /\ slot[r].op = NoCall
      BY <1>2, CoreAssumption DEF AllFree, FreeSlot
    <3>3. Owes(c)' /\ \A d \in Calls \ {c} : Owes(d)' <=> Owes(d)
      BY <2>1, <2>2 DEF TypeOK, Owes, Active, WriteTags, Unsettled
    <3>4. \A d \in Calls, r \in Resources :
            slot'[r].op = d <=> IF r \in Needs[c] THEN d = c ELSE slot[r].op = d
      BY <2>1 DEF Held
    <3>5. \A d \in Calls, r \in Resources : slot'[r].op = d <=> Owes(d)' /\ r \in Needs[d]
      <4> SUFFICES ASSUME NEW d \in Calls, NEW r \in Resources
                   PROVE  slot'[r].op = d <=> Owes(d)' /\ r \in Needs[d]
        OBVIOUS
      <4>0. ~Owes(c)
        BY <2>1 DEF Owes, Active, WriteTags, Unsettled
      <4>1. CASE d = c
        BY <4>0, <4>1, <3>1, <3>3, <3>4
      <4>2. CASE d # c
        <5>1. Owes(d) /\ r \in Needs[d] => r \notin Needs[c]
          BY <4>2, <3>1, <3>2, CoreAssumption
        <5> QED
          BY <4>2, <5>1, <3>1, <3>3, <3>4
      <4> QED
        BY <4>1, <4>2
    <3>6. \A d \in Calls : {r \in Resources : slot'[r].op = d} = IF Owes(d)' THEN Needs[d] ELSE {}
      BY <3>5, CoreAssumption
    <3> QED
      BY <3>6 DEF LeasesFollowOperations
  <2> QED
    BY <2>3, <2>4, <2>5, <2>6
<1> QED
  BY <1>1, <1>2

\* The handler goes from its first write to the second, or fails.
LEMMA CheckStep == ASSUME IInv, NEW c \in Calls, Check(c) PROVE IInv'
<1> USE DEF IInv
<1> DEFINE rec == [mem[c] EXCEPT !.state = "dispatching"]
<1>0. mem[c] \in Record /\ mem[c].cleanup = "pending" /\ "dispatching" \in OperationStates
  BY DEF HandlerInv, Check, Unsettled, OperationStates
<1>1. rec \in Record /\ rec.cleanup = "pending"
  BY <1>0, RecordUpdate
<1>2. /\ pc[c] = "check"
      /\ mem' = mem \/ mem' = [mem EXCEPT ![c] = rec]
      /\ UNCHANGED <<dedup, staged, aborted, started, auth, viewFailed, recon,
                 sharedVars, disk, startVars, worldVars>>
  BY DEF TypeOK, Check
<1>3. /\ pc' = [pc EXCEPT ![c] = "dispatching"] \/ pc' = [pc EXCEPT ![c] = "failing"]
      /\ \A d \in Calls \ {c} : queue'[d] = queue[d]
      /\ queue' \in [Calls -> Seq(DurableWrite)]
  <2>1. CASE aborted[c] \/ sealed
    BY <2>1 DEF TypeOK, Check, Goto
  <2>2. CASE ~aborted[c] /\ ~sealed
    <3>1. PersistOr(c, "dispatching", rec, "failing")
      BY <2>2 DEF TypeOK, Check
    <3> QED
      BY <3>1, <1>1, PersistOrType, PersistOrEffect DEF WriteTags, PCs, Unsettled
  <2> QED
    BY <2>1, <2>2
<1> HIDE DEF rec
<1>4. TypeOK'
  <2>1. mem' \in [Calls -> StoredRecord]
    BY <1>1, <1>2, RecordFacts DEF TypeOK
  <2> QED
    BY <1>2, <1>3, <2>1 DEF TypeOK, PCs, Unsettled, WriteTags
<1>5. HandlerInv'
  BY <1>0, <1>1, <1>2, <1>3 DEF TypeOK, HandlerInv, WriteTags, Unsettled
<1>6. EpochInv'
  <2>1. PICK p \in {"dispatching", "failing"} : pc' = [pc EXCEPT ![c] = p]
    BY <1>3
  <2>2. p \in Unsettled /\ pc[c] \in Unsettled
    BY <1>2 DEF Unsettled, WriteTags
  <2> QED
    BY <1>2, <1>3, <2>1, <2>2, EpochKept
<1>7. LeasesFollowOperations'
  BY <1>2, <1>3, LeasesKept DEF TypeOK, Owes, Active, WriteTags, Unsettled
<1> QED
  BY <1>4, <1>5, <1>6, <1>7

\* A verified answer goes to its final write, or the handler fails.
LEMMA VerifyAcceptsStep == ASSUME IInv, NEW c \in Calls, VerifyAccepts(c) PROVE IInv'
<1> USE DEF IInv
<1>1. /\ pc[c] = "verifying"
      /\ UNCHANGED <<dedup, mem, staged, aborted, started, auth, viewFailed, recon,
                 sharedVars, disk, startVars, worldVars>>
  BY DEF VerifyAccepts
<1>2. staged[c] \in Record
  BY <1>1 DEF HandlerInv
<1>3. /\ pc' = [pc EXCEPT ![c] = "committing"] \/ pc' = [pc EXCEPT ![c] = "failing"]
      /\ \A d \in Calls \ {c} : queue'[d] = queue[d]
      /\ queue' \in [Calls -> Seq(DurableWrite)]
  <2>1. CASE Withdrawn(c)
    BY <2>1 DEF TypeOK, VerifyAccepts, Goto
  <2>2. CASE ~Withdrawn(c)
    <3>1. PersistOr(c, "committing", staged[c], "failing")
      BY <2>2 DEF VerifyAccepts
    <3> QED
      BY <3>1, <1>2, PersistOrType, PersistOrEffect DEF WriteTags, PCs, Unsettled
  <2> QED
    BY <2>1, <2>2
<1>4. TypeOK'
  BY <1>1, <1>3 DEF TypeOK, PCs, Unsettled, WriteTags
<1>5. HandlerInv'
  BY <1>1, <1>2, <1>3 DEF TypeOK, HandlerInv, WriteTags, Unsettled
<1>6. EpochInv'
  BY <1>1, <1>3 DEF TypeOK, EpochInv, Empty, WriteTags, Unsettled
<1>7. LeasesFollowOperations'
  BY <1>1, <1>3, LeasesKept DEF TypeOK, Owes, Active, WriteTags, Unsettled
<1> QED
  BY <1>4, <1>5, <1>6, <1>7

\* The commit applies the cleanup to the leases and to the record alike.
LEMMA CommitStep == ASSUME IInv, NEW c \in Calls, Commit(c) PROVE IInv'
<1> USE DEF IInv
<1>1. /\ pc[c] = "commit" /\ staged[c] \in Record
      /\ UNCHANGED <<dedup, staged, aborted, started, auth, viewFailed, recon,
                 sealed, poisoned, drain, storeVars, startVars, worldVars>>
  BY DEF Commit, HandlerInv
<1>2. CASE Withdrawn(c)
  <2>1. pc' = [pc EXCEPT ![c] = "failing"] /\ slot' = slot /\ mem' = mem
    BY <1>2 DEF Commit, Goto
  <2>2. TypeOK'
    BY <1>1, <2>1 DEF TypeOK, PCs, Unsettled
  <2>3. HandlerInv'
    BY <1>1, <2>1 DEF TypeOK, HandlerInv, WriteTags, Unsettled
  <2>4. EpochInv'
    BY <1>1, <2>1 DEF TypeOK, EpochInv, Empty, WriteTags, Unsettled
  <2>5. LeasesFollowOperations'
    BY <1>1, <2>1, LeasesKept DEF TypeOK, Owes, Active, WriteTags, Unsettled
  <2> QED
    BY <2>2, <2>3, <2>4, <2>5
<1>3. CASE ~Withdrawn(c)
  <2>1. /\ pc' = [pc EXCEPT ![c] = "settled"] /\ mem' = [mem EXCEPT ![c] = staged[c]]
        /\ slot' = SlotsAfter(c, staged[c].cleanup)
    BY <1>3 DEF Commit, Goto
  <2>2. TypeOK'
    BY <1>1, <2>1, SlotsType DEF TypeOK, PCs, Unsettled
  <2>3. HandlerInv'
    BY <1>1, <2>1 DEF TypeOK, HandlerInv, WriteTags, Unsettled
  <2>4. EpochInv'
    BY <1>1, <2>1 DEF TypeOK, EpochInv, Empty, WriteTags, Unsettled
  <2>5. LeasesFollowOperations'
    <3>1. \A d \in Calls \ {c} : Owes(d)' <=> Owes(d)
      BY <1>1, <2>1 DEF TypeOK, Owes, Active, WriteTags, Unsettled
    <3>2. Owes(c) /\ (Owes(c)' <=> staged[c].cleanup # "complete")
      BY <1>1, <2>1 DEF TypeOK, Owes, Active, WriteTags, Unsettled
    <3>3. CASE staged[c].cleanup = "complete"
      BY <2>1, <3>1, <3>2, <3>3, LeasesDropped
    <3>4. CASE staged[c].cleanup # "complete"
      <4>1. slot' = SlotsAfter(c, "unknown")
        BY <2>1, <3>4 DEF SlotsAfter
      <4> QED
        BY <4>1, <3>1, <3>2, <3>4, LeasesQuarantined
    <3> QED
      BY <3>3, <3>4
  <2> QED
    BY <2>2, <2>3, <2>4, <2>5
<1> QED
  BY <1>2, <1>3

\* The catch block, when nothing can have been dispatched.
LEMMA CatchUnsentStep == ASSUME IInv, NEW c \in Calls, CatchUnsent(c) PROVE IInv'
<1> USE DEF IInv
<1> DEFINE state == IF started[c] /\ viewFailed[c] = "cancelled" THEN "cancelled"
                    ELSE IF mem[c].state = "registered" THEN "rejected" ELSE "failed"
           rec == Staged(state, "complete", mem[c].gate)
<1>1. /\ pc[c] = "failing" /\ auth[c] # "pending"
      /\ staged' = [staged EXCEPT ![c] = rec]
      /\ PersistOr(c, "releasing", rec, "release")
      /\ sealed' = (sealed \/ poisoned)
      /\ UNCHANGED <<dedup, mem, aborted, started, auth, viewFailed, recon,
                 slot, poisoned, drain, disk, startVars, worldVars>>
  BY DEF CatchUnsent
<1>2. rec \in Record /\ rec.cleanup = "complete"
  <2>1. mem[c].gate \in SendGates
    BY RecordFacts DEF TypeOK
  <2>2. state \in OperationStates /\ "complete" \in CleanupStates
    BY DEF OperationStates, CleanupStates
  <2> QED
    BY <2>1, <2>2, RecordFacts DEF Staged
<1> HIDE DEF rec
<1>3. /\ pc' = [pc EXCEPT ![c] = "releasing"] \/ pc' = [pc EXCEPT ![c] = "release"]
      /\ \A d \in Calls \ {c} : queue'[d] = queue[d]
      /\ queue' \in [Calls -> Seq(DurableWrite)]
  BY <1>1, <1>2, PersistOrType, PersistOrEffect DEF WriteTags, PCs, Unsettled
<1>4. TypeOK'
  BY <1>1, <1>2, <1>3, RecordFacts DEF TypeOK, PCs, Unsettled, WriteTags
<1>5. HandlerInv'
  BY <1>1, <1>2, <1>3 DEF TypeOK, HandlerInv, WriteTags, Unsettled
<1>6. EpochInv'
  BY <1>1, <1>3 DEF TypeOK, EpochInv, Empty, WriteTags, Unsettled
<1>7. LeasesFollowOperations'
  BY <1>1, <1>3, LeasesKept DEF TypeOK, Owes, Active, WriteTags, Unsettled
<1> QED
  BY <1>4, <1>5, <1>6, <1>7

\* The catch block, when something may have been dispatched.
LEMMA CatchUnknownStep == ASSUME IInv, NEW c \in Calls, CatchUnknown(c) PROVE IInv'
<1> USE DEF IInv
<1> DEFINE rec == Staged("interrupted-unknown", "unknown", mem[c].gate)
<1>1. /\ pc[c] = "failing" /\ auth[c] # "pending"
      /\ staged' = [staged EXCEPT ![c] = rec]
      /\ PersistOr(c, "quarantining", rec, "settle")
      /\ sealed' = (sealed \/ poisoned)
      /\ slot' = SlotsAfter(c, "unknown")
      /\ UNCHANGED <<dedup, mem, aborted, started, auth, viewFailed, recon,
                 poisoned, drain, disk, startVars, worldVars>>
  BY DEF CatchUnknown
<1>2. rec \in Record /\ rec.cleanup = "unknown"
  <2>1. mem[c].gate \in SendGates
    BY RecordFacts DEF TypeOK
  <2> QED
    BY <2>1, RecordFacts DEF Staged, OperationStates, CleanupStates
<1> HIDE DEF rec
<1>3. /\ pc' = [pc EXCEPT ![c] = "quarantining"] \/ pc' = [pc EXCEPT ![c] = "settle"]
      /\ \A d \in Calls \ {c} : queue'[d] = queue[d]
      /\ queue' \in [Calls -> Seq(DurableWrite)]
  BY <1>1, <1>2, PersistOrType, PersistOrEffect DEF WriteTags, PCs, Unsettled
<1>4. TypeOK'
  BY <1>1, <1>2, <1>3, RecordFacts, SlotsType DEF TypeOK, PCs, Unsettled, WriteTags
<1>5. HandlerInv'
  BY <1>1, <1>2, <1>3 DEF TypeOK, HandlerInv, WriteTags, Unsettled
<1>6. EpochInv'
  BY <1>1, <1>3 DEF TypeOK, EpochInv, Empty, WriteTags, Unsettled
<1>7. LeasesFollowOperations'
  <2>1. \A d \in Calls : Owes(d)' <=> Owes(d)
    BY <1>1, <1>3 DEF TypeOK, Owes, Active, WriteTags, Unsettled
  <2> QED
    BY <1>1, <2>1, LeasesQuarantined
<1> QED
  BY <1>4, <1>5, <1>6, <1>7

\* The handler ends as the catch block decided.
LEMMA SettleStep == ASSUME IInv, NEW c \in Calls, Settle(c) PROVE IInv'
<1> USE DEF IInv
<1>1. /\ pc[c] \in {"release", "settle"} /\ staged[c] \in Record
      /\ pc[c] = "release" => staged[c].cleanup = "complete"
      /\ pc[c] = "settle" => staged[c].cleanup = "unknown"
      /\ pc' = [pc EXCEPT ![c] = "settled"] /\ mem' = [mem EXCEPT ![c] = staged[c]]
      /\ slot' = IF pc[c] = "release" THEN SlotsAfter(c, "complete") ELSE slot
      /\ UNCHANGED <<dedup, staged, aborted, started, auth, viewFailed, recon,
                 sealed, poisoned, drain, storeVars, startVars, worldVars>>
  BY DEF Settle, HandlerInv, Goto
<1>2. TypeOK'
  BY <1>1, SlotsType DEF TypeOK, PCs
<1>3. HandlerInv'
  BY <1>1 DEF TypeOK, HandlerInv, WriteTags, Unsettled
<1>4. EpochInv'
  BY <1>1 DEF TypeOK, EpochInv, Empty, WriteTags, Unsettled
<1>5. LeasesFollowOperations'
  <2>1. \A d \in Calls \ {c} : Owes(d)' <=> Owes(d)
    BY <1>1 DEF TypeOK, Owes, Active, WriteTags, Unsettled
  <2>2. Owes(c) /\ (Owes(c)' <=> pc[c] = "settle")
    BY <1>1 DEF TypeOK, Owes, Active, WriteTags, Unsettled
  <2>3. CASE pc[c] = "release"
    BY <1>1, <2>1, <2>2, <2>3, LeasesDropped
  <2>4. CASE pc[c] = "settle"
    BY <1>1, <2>1, <2>2, <2>4, LeasesKept
  <2> QED
    BY <1>1, <2>3, <2>4
<1> QED
  BY <1>2, <1>3, <1>4, <1>5

\* A cancelled operation keeps its cleanup and its leases.
LEMMA CancelStep == ASSUME IInv, NEW c \in Calls, Cancel(c) PROVE IInv'
<1> USE DEF IInv
<1> DEFINE rec == [mem[c] EXCEPT !.state = "cancelling"]
<1>1. /\ c \in Active /\ mem' = [mem EXCEPT ![c] = rec] /\ aborted' = [aborted EXCEPT ![c] = TRUE]
      /\ UNCHANGED <<pc, dedup, staged, started, auth, viewFailed, recon,
                 sharedVars, storeVars, startVars, worldVars>>
  BY DEF Cancel, TypeOK
<1>2. mem[c] \in Record /\ rec \in Record /\ rec.cleanup = "pending"
  <2>1. mem[c] \in Record /\ mem[c].cleanup = "pending" /\ "cancelling" \in OperationStates
    BY <1>1 DEF HandlerInv, Active, OperationStates
  <2> QED
    BY <2>1, RecordUpdate
<1> HIDE DEF rec
<1>3. TypeOK'
  BY <1>1, <1>2, RecordFacts DEF TypeOK
<1>4. HandlerInv'
  BY <1>1, <1>2 DEF TypeOK, HandlerInv, Active, WriteTags, Unsettled
<1>5. EpochInv'
  BY <1>1 DEF EpochInv
<1>6. LeasesFollowOperations'
  BY <1>1, LeasesKept DEF TypeOK, Owes, Active, WriteTags, Unsettled
<1> QED
  BY <1>3, <1>4, <1>5, <1>6

\* Reconciliation first hands the cleaned record to the store ...
LEMMA ReconcileStep == ASSUME IInv, NEW c \in Calls, Reconcile(c) PROVE IInv'
<1> USE DEF IInv
<1>1. /\ pc[c] = "settled" /\ mem[c].cleanup # "complete"
      /\ Enqueue(c, "reconcile", [mem[c] EXCEPT !.cleanup = "complete"])
      /\ recon' = [recon EXCEPT ![c] = "writing"]
      /\ UNCHANGED <<pc, dedup, mem, staged, aborted, started, auth, viewFailed,
                 sharedVars, disk, startVars, worldVars>>
  BY DEF Reconcile
<1>2. mem[c] \in Record /\ [mem[c] EXCEPT !.cleanup = "complete"] \in Record
  BY <1>1, RecordUpdate DEF HandlerInv, CleanupStates
<1>3. queue' \in [Calls -> Seq(DurableWrite)] /\ \A d \in Calls \ {c} : queue'[d] = queue[d]
  BY <1>1, <1>2, EnqueueType DEF TypeOK, Enqueue, Tags
<1>4. TypeOK'
  BY <1>1, <1>3 DEF TypeOK
<1>5. HandlerInv'
  BY <1>1, <1>2 DEF TypeOK, HandlerInv
<1>6. EpochInv'
  BY <1>1, <1>3 DEF TypeOK, EpochInv, Empty
<1>7. LeasesFollowOperations'
  BY <1>1, LeasesKept DEF TypeOK, Owes, Active
<1> QED
  BY <1>4, <1>5, <1>6, <1>7

\* ... and drops the leases once it is durable.
LEMMA ReconcileCommitStep == ASSUME IInv, NEW c \in Calls, ReconcileCommit(c) PROVE IInv'
<1> USE DEF IInv
<1> DEFINE rec == [mem[c] EXCEPT !.cleanup = "complete"]
<1>1. /\ recon[c] = "written" /\ slot' = SlotsAfter(c, "complete")
      /\ mem' = [mem EXCEPT ![c] = rec] /\ recon' = [recon EXCEPT ![c] = "none"]
      /\ UNCHANGED <<pc, dedup, staged, aborted, started, auth, viewFailed,
                 sealed, poisoned, drain, storeVars, startVars, worldVars>>
  BY DEF ReconcileCommit, TypeOK
<1>2. pc[c] = "settled" /\ rec \in Record /\ rec.cleanup = "complete"
  BY <1>1, RecordUpdate DEF HandlerInv, CleanupStates
<1> HIDE DEF rec
<1>3. TypeOK'
  BY <1>1, <1>2, RecordFacts, SlotsType DEF TypeOK
<1>4. HandlerInv'
  BY <1>1, <1>2 DEF TypeOK, HandlerInv, WriteTags, Unsettled
<1>5. EpochInv'
  BY <1>1 DEF EpochInv
<1>6. LeasesFollowOperations'
  <2>1. ~Owes(c)' /\ \A d \in Calls \ {c} : Owes(d)' <=> Owes(d)
    BY <1>1, <1>2 DEF TypeOK, Owes, Active, WriteTags, Unsettled
  <2> QED
    BY <1>1, <2>1, LeasesDropped
<1> QED
  BY <1>3, <1>4, <1>5, <1>6

\* The adapter asks for its grant; the record goes to the store.
LEMMA RequestAuthorizationStep ==
  ASSUME IInv, NEW c \in Calls, RequestAuthorization(c) PROVE IInv'
<1> USE DEF IInv
<1>1. /\ pc[c] = "running"
      /\ Enqueue(c, "auth", [mem[c] EXCEPT !.gate = "send-authorized"])
      /\ auth' = [auth EXCEPT ![c] = "pending"]
      /\ UNCHANGED <<pc, dedup, mem, staged, aborted, started, viewFailed, recon,
                 sharedVars, disk, startVars, worldVars>>
  BY DEF RequestAuthorization
<1>2. [mem[c] EXCEPT !.gate = "send-authorized"] \in Record
  BY <1>1, RecordUpdate DEF HandlerInv, SendGates, Unsettled
<1>3. queue' \in [Calls -> Seq(DurableWrite)] /\ \A d \in Calls \ {c} : queue'[d] = queue[d]
  BY <1>1, <1>2, EnqueueType DEF TypeOK, Enqueue, Tags
<1>4. TypeOK'
  BY <1>1, <1>3 DEF TypeOK
<1>5. HandlerInv'
  BY <1>1 DEF TypeOK, HandlerInv
<1>6. EpochInv'
  BY <1>1, <1>3 DEF TypeOK, EpochInv, Empty
<1>7. LeasesFollowOperations'
  BY <1>1, LeasesKept DEF TypeOK, Owes, Active
<1> QED
  BY <1>4, <1>5, <1>6, <1>7

\* Whatever the adapter claims is a record with a known gate.
LEMMA AdapterReturnsStep == ASSUME IInv, NEW c \in Calls, AdapterReturns(c) PROVE IInv'
<1> USE DEF IInv
<1>1. PICK rec \in Record :
        /\ pc[c] = "running" /\ auth[c] # "pending"
        /\ staged' = [staged EXCEPT ![c] = rec] /\ pc' = [pc EXCEPT ![c] = "verifying"]
        /\ UNCHANGED <<dedup, mem, aborted, started, auth, viewFailed, recon,
                 sharedVars, storeVars, startVars, worldVars>>
  <2>1. PICK claim \in Claims :
          staged' = [staged EXCEPT ![c] =
                    IF claim.state # "completed" /\ RefusedUnsent(c)
                      THEN Staged(ViewOutcome(c), "complete", mem[c].gate)
                      ELSE Staged(claim.state, claim.cleanup, mem[c].gate)]
    BY DEF AdapterReturns
  <2>2. mem[c].gate \in SendGates
    BY RecordFacts DEF TypeOK
  <2>3. /\ claim.state \in OperationStates /\ claim.cleanup \in CleanupStates
        /\ ViewOutcome(c) \in OperationStates /\ "complete" \in CleanupStates
    BY DEF Claims, OperationStates, CleanupStates, ViewOutcome
  <2>4. /\ Staged(ViewOutcome(c), "complete", mem[c].gate) \in Record
        /\ Staged(claim.state, claim.cleanup, mem[c].gate) \in Record
    BY <2>2, <2>3, RecordFacts
  <2> QED
    BY <2>1, <2>4 DEF AdapterReturns, Goto
<1>2. TypeOK'
  BY <1>1, RecordFacts DEF TypeOK, PCs, Unsettled
<1>3. HandlerInv'
  BY <1>1 DEF TypeOK, HandlerInv, WriteTags, Unsettled
<1>4. EpochInv'
  BY <1>1 DEF TypeOK, EpochInv, Empty, WriteTags, Unsettled
<1>5. LeasesFollowOperations'
  BY <1>1, LeasesKept DEF TypeOK, Owes, Active, WriteTags, Unsettled
<1> QED
  BY <1>2, <1>3, <1>4, <1>5

\* Replacing the head of a queue keeps its type and its length.
LEMMA HeadReplaced ==
  ASSUME NEW S, NEW s \in Seq(S), s # <<>>, NEW e \in S
  PROVE  [s EXCEPT ![1] = e] \in Seq(S) /\ [s EXCEPT ![1] = e] # <<>>
  OBVIOUS

\* The write at the head of a queue.
LEMMA HeadWrite ==
  ASSUME TypeOK, NEW c \in Calls, queue[c] # <<>>
  PROVE  /\ queue[c][1] \in DurableWrite /\ queue[c][1] = Head(queue[c])
         /\ queue[c][1].tag \in Tags /\ queue[c][1].rec \in Record
         /\ Tail(queue[c]) \in Seq(DurableWrite)
<1>1. queue[c] \in Seq(DurableWrite)
  BY DEF TypeOK
<1>2. queue[c][1] \in DurableWrite /\ queue[c][1] = Head(queue[c]) /\ Tail(queue[c]) \in Seq(DurableWrite)
  BY <1>1
<1> QED
  BY <1>2 DEF DurableWrite

\* A durable answer moves a waiting handler inside its operation, grants or
\* refuses a send, finishes a reconciliation or one record of recovery; it
\* never settles an operation and never opens or ends one.
LEMMA AnswerKeeps ==
  ASSUME IInv, NEW c \in Calls, NEW tag \in Tags, NEW rec \in Record, NEW ok \in BOOLEAN,
         Answer(c, tag, rec, ok), staged' = staged
  PROVE  /\ pc' \in [Calls -> PCs] /\ mem' \in [Calls -> StoredRecord]
         /\ auth' \in [Calls -> {"none", "pending", "granted", "refused"}]
         /\ recon' \in [Calls -> {"none", "writing", "written"}]
         /\ refresh' \in Refresh
         /\ refresh'.todo \subseteq refresh.todo /\ refresh'.left \subseteq refresh.left
         /\ refresh'.cur \in {refresh.cur, NoCall}
         /\ \A d \in Calls : pc'[d] = pc[d] \/ {pc[d], pc'[d]} \subseteq Unsettled
         /\ \A d \in Calls : mem'[d] = mem[d] \/ pc[d] # "settled"
         /\ \A d \in Calls : Owes(d)' <=> Owes(d)
         /\ HandlerInv'
<1> USE DEF IInv
<1> DEFINE Kept == /\ \A d \in Calls : pc'[d] = pc[d] \/ {pc[d], pc'[d]} \subseteq Unsettled
                   /\ \A d \in Calls : mem'[d] = mem[d] \/ pc[d] # "settled"
                   /\ \A d \in Calls : Owes(d)' <=> Owes(d)
           Typed == /\ pc' \in [Calls -> PCs] /\ mem' \in [Calls -> StoredRecord]
                    /\ auth' \in [Calls -> {"none", "pending", "granted", "refused"}]
                    /\ recon' \in [Calls -> {"none", "writing", "written"}]
           Refreshed == /\ refresh' \in Refresh
                        /\ refresh'.todo \subseteq refresh.todo /\ refresh'.left \subseteq refresh.left
                        /\ refresh'.cur \in {refresh.cur, NoCall}
<1>1. CASE ~Waiting(c, tag)
  <2>1. UNCHANGED <<pc, mem, auth, recon, refresh>>
    BY <1>1 DEF Answer
  <2>2. Typed /\ Refreshed
    BY <2>1 DEF TypeOK
  <2>3. Kept /\ HandlerInv'
    BY <2>1 DEF Owes, Active, HandlerInv
  <2> QED
    BY <2>2, <2>3
<1>2. CASE Waiting(c, tag) /\ tag \in WriteTags
  <2>1. /\ pc[c] = tag /\ pc' = [pc EXCEPT ![c] = AfterWrite(tag, ok)]
        /\ UNCHANGED <<mem, auth, recon, refresh>>
    BY <1>2 DEF Answer, Waiting, WriteTags
  <2>2. AfterWrite(tag, ok) \in Unsettled
    BY <1>2, AfterWriteType
  <2>3. Typed /\ Refreshed
    BY <2>1, <2>2, PCFacts DEF TypeOK
  <2>4. Kept
    BY <1>2, <2>1, <2>2, PCFacts DEF TypeOK, Owes, Active
  <2>5. HandlerInv'
    <3>1. /\ tag = "committing" => AfterWrite(tag, ok) \in {"commit", "failing"}
          /\ tag = "releasing" => AfterWrite(tag, ok) = "release"
          /\ tag = "quarantining" => AfterWrite(tag, ok) = "settle"
          /\ tag \in {"registered", "dispatching"} => AfterWrite(tag, ok) \in {"check", "ready", "failing"}
          /\ tag \in {"registered", "dispatching", "committing", "releasing", "quarantining"}
      BY <1>2 DEF AfterWrite, WriteTags
    <3> QED
      BY <2>1, <3>1 DEF TypeOK, HandlerInv, WriteTags, Unsettled
  <2> QED
    BY <2>3, <2>4, <2>5
<1>3. CASE Waiting(c, tag) /\ tag = "auth"
  <2> DEFINE new == [mem[c] EXCEPT !.gate = rec.gate]
  <2>1. /\ auth[c] = "pending" /\ UNCHANGED <<pc, recon, refresh>>
        /\ auth' = [auth EXCEPT ![c] = "granted"] \/ auth' = [auth EXCEPT ![c] = "refused"]
        /\ mem' = mem \/ mem' = [mem EXCEPT ![c] = new]
    BY <1>3 DEF Answer, Waiting, WriteTags, TypeOK
  <2>2. pc[c] \in Unsettled /\ mem[c] \in Record
    BY <2>1 DEF HandlerInv, Unsettled
  <2>3. new \in Record /\ new.cleanup = mem[c].cleanup
    BY <2>2, RecordUpdate
  <2> HIDE DEF new
  <2>4. Typed /\ Refreshed
    <3>1. mem' \in [Calls -> StoredRecord]
      <4>1. mem \in [Calls -> StoredRecord] /\ new \in StoredRecord
        BY <2>3, RecordFacts DEF TypeOK
      <4> QED
        BY <2>1, <4>1
    <3>2. auth' \in [Calls -> {"none", "pending", "granted", "refused"}]
      <4>1. auth \in [Calls -> {"none", "pending", "granted", "refused"}]
        BY DEF TypeOK
      <4>2. PICK a \in {"granted", "refused"} : auth' = [auth EXCEPT ![c] = a]
        BY <2>1
      <4> QED
        BY <4>1, <4>2
    <3> QED
      BY <2>1, <3>1, <3>2 DEF TypeOK
  <2>5. Kept
    <3>1. pc[c] # "settled" /\ mem \in [Calls -> StoredRecord]
      BY <2>2, PCFacts DEF TypeOK, Unsettled, WriteTags
    <3>2. \A d \in Calls : mem'[d] = mem[d] \/ d = c
      BY <2>1, <3>1
    <3>3. \A d \in Calls : mem'[d] = mem[d] \/ pc[d] # "settled"
      BY <3>1, <3>2
    <3>4. \A d \in Calls : Owes(d)' <=> Owes(d)
      BY <2>1, <3>3 DEF Owes, Active
    <3> QED
      BY <2>1, <3>3, <3>4
  <2>6. HandlerInv'
    BY <2>1, <2>2, <2>3 DEF TypeOK, HandlerInv, Unsettled, WriteTags
  <2> QED
    BY <2>4, <2>5, <2>6
<1>4. CASE Waiting(c, tag) /\ tag = "reconcile"
  <2>1. /\ recon[c] = "writing" /\ UNCHANGED <<pc, mem, auth, refresh>>
        /\ recon' = [recon EXCEPT ![c] = "written"] \/ recon' = [recon EXCEPT ![c] = "none"]
    BY <1>4 DEF Answer, Waiting, WriteTags
  <2>2. Typed /\ Refreshed
    BY <2>1 DEF TypeOK
  <2>3. Kept /\ HandlerInv'
    BY <2>1 DEF TypeOK, Owes, Active, HandlerInv
  <2> QED
    BY <2>2, <2>3
<1>5. CASE Waiting(c, tag) /\ tag = "recover"
  <2>1. /\ refresh.cur = c /\ UNCHANGED <<pc, auth, recon>>
        /\ mem' = mem \/ mem' = [mem EXCEPT ![c] = rec]
        /\ \/ refresh' = [refresh EXCEPT !.todo = @ \ {c}, !.cur = NoCall]
           \/ refresh' = NoRefresh
    BY <1>5 DEF Answer, Waiting, WriteTags
  <2>2. pc[c] = "lost"
    BY <2>1, CoreAssumption DEF EpochInv
  <2>3. Typed
    <3>1. mem \in [Calls -> StoredRecord] /\ rec \in StoredRecord
      BY RecordFacts DEF TypeOK
    <3>2. mem' \in [Calls -> StoredRecord]
      BY <2>1, <3>1
    <3> QED
      BY <2>1, <3>2 DEF TypeOK
  <2>4. Refreshed
    <3>1. refresh \in Refresh
      BY DEF TypeOK
    <3>2. CASE refresh' = NoRefresh
      BY <3>2 DEF Refresh, NoRefresh
    <3>3. CASE refresh' = [refresh EXCEPT !.todo = @ \ {c}, !.cur = NoCall]
      BY <3>1, <3>3 DEF Refresh
    <3> QED
      BY <2>1, <3>2, <3>3
  <2>5. Kept
    <3>1. mem \in [Calls -> StoredRecord]
      BY DEF TypeOK
    <3>2. \A d \in Calls : mem'[d] = mem[d] \/ d = c
      BY <2>1, <3>1
    <3>3. \A d \in Calls : mem'[d] = mem[d] \/ pc[d] = "lost"
      BY <2>2, <3>2
    <3>4. \A d \in Calls : Owes(d)' <=> Owes(d)
      BY <2>1, <3>3 DEF Owes, Active, Unsettled, WriteTags
    <3> QED
      BY <2>1, <3>3, <3>4
  <2>6. HandlerInv'
    <3>1. \A d \in Calls \ {c} : mem'[d] = mem[d]
      BY <2>1 DEF TypeOK
    <3>2. pc[c] \notin Unsettled \cup {"settled"}
      BY <2>2 DEF Unsettled, WriteTags
    <3> QED
      BY <2>1, <2>2, <3>1, <3>2 DEF HandlerInv
  <2> QED
    BY <2>3, <2>4, <2>5, <2>6
<1>6. tag \in WriteTags \/ tag \in {"auth", "reconcile", "recover"}
  BY DEF Tags
<1> QED
  BY <1>1, <1>2, <1>3, <1>4, <1>5, <1>6

\* A write that is finished leaves its queue and answers whoever waits for it.
LEMMA FinishStep ==
  ASSUME IInv, NEW c \in Calls, NEW ok \in BOOLEAN, queue[c] # <<>>, Finish(c, ok),
         UNCHANGED disk, faults' \in 0..MaxFaults
  PROVE  IInv'
<1> USE DEF IInv
<1> DEFINE w == Head(queue[c])
<1>1. /\ queue' = [queue EXCEPT ![c] = Tail(queue[c])]
      /\ Answer(c, w.tag, w.rec, ok)
      /\ sealed' \in BOOLEAN
      /\ UNCHANGED <<dedup, staged, aborted, started, viewFailed, slot, poisoned, drain,
                 initialized, serving, hist, evidence, heldPending, sent, live, crashes>>
  BY DEF Finish, TypeOK
<1>2. w.tag \in Tags /\ w.rec \in Record /\ Tail(queue[c]) \in Seq(DurableWrite)
  BY HeadWrite
<1> HIDE DEF w
<1>3. /\ pc' \in [Calls -> PCs] /\ mem' \in [Calls -> StoredRecord]
      /\ auth' \in [Calls -> {"none", "pending", "granted", "refused"}]
      /\ recon' \in [Calls -> {"none", "writing", "written"}]
      /\ refresh' \in Refresh
      /\ refresh'.todo \subseteq refresh.todo /\ refresh'.left \subseteq refresh.left
      /\ refresh'.cur \in {refresh.cur, NoCall}
      /\ \A d \in Calls : pc'[d] = pc[d] \/ {pc[d], pc'[d]} \subseteq Unsettled
      /\ \A d \in Calls : Owes(d)' <=> Owes(d)
      /\ HandlerInv'
  BY <1>1, <1>2, AnswerKeeps
<1>4. TypeOK'
  BY <1>1, <1>2, <1>3 DEF TypeOK
<1>5. EpochInv'
  <2>1. pc[c] \notin Empty
    BY DEF EpochInv
  <2>2. \A d \in Calls : pc'[d] \in Empty => disk'[d] = NoRecord /\ queue'[d] = <<>>
    <3> SUFFICES ASSUME NEW d \in Calls, pc'[d] \in Empty
                 PROVE  disk'[d] = NoRecord /\ queue'[d] = <<>>
      OBVIOUS
    <3>1. pc[d] \in Empty
      BY <1>3 DEF Empty, Unsettled, WriteTags
    <3>2. d # c
      BY <2>1, <3>1
    <3>3. queue'[d] = queue[d]
      BY <1>1, <3>2 DEF TypeOK
    <3> QED
      BY <3>1, <3>3 DEF EpochInv
  <2>3. \A d \in hist' : pc'[d] = "lost" /\ disk'[d] \in Record
    <3>1. "lost" \notin Unsettled
      BY DEF Unsettled, WriteTags
    <3>2. \A d \in hist : d \in Calls /\ pc[d] = "lost" /\ disk[d] \in Record
      BY DEF TypeOK, EpochInv
    <3> QED
      BY <1>1, <1>3, <3>1, <3>2
  <2>4. ~initialized' => \A d \in Calls : pc'[d] \notin Unsettled \cup {"resolving", "settled"}
    BY <1>1, <1>3 DEF TypeOK, EpochInv
  <2> QED
    BY <1>1, <1>3, <2>2, <2>3, <2>4 DEF EpochInv
<1>6. LeasesFollowOperations'
  BY <1>1, <1>3, LeasesKept
<1> QED
  BY <1>3, <1>4, <1>5, <1>6

\* Only the head of one queue has changed, and perhaps what it wrote.
LEMMA HeadStep ==
  ASSUME IInv, NEW c \in Calls, queue[c] # <<>>, NEW e \in DurableWrite, NEW r \in Record,
         queue' = [queue EXCEPT ![c] = [queue[c] EXCEPT ![1] = e]],
         disk' \in {disk, [disk EXCEPT ![c] = r]}, faults' \in 0..MaxFaults,
         UNCHANGED <<handlerVars, sharedVars, startVars, sent, live, crashes>>
  PROVE  IInv'
<1> USE DEF IInv
<1>1. [queue[c] EXCEPT ![1] = e] \in Seq(DurableWrite)
  BY HeadReplaced DEF TypeOK
<1>2. TypeOK'
  BY <1>1, RecordFacts DEF TypeOK
<1>3. HandlerInv'
  BY DEF HandlerInv
<1>4. EpochInv'
  <2>1. pc[c] \notin Empty
    BY DEF EpochInv
  <2>2. \A d \in Calls \ {c} : queue'[d] = queue[d] /\ disk'[d] = disk[d]
    BY DEF TypeOK
  <2>3. disk'[c] \in Record \/ disk'[c] = disk[c]
    BY DEF TypeOK
  <2>4. \A d \in Calls : pc'[d] \in Empty => disk'[d] = NoRecord /\ queue'[d] = <<>>
    BY <2>1, <2>2 DEF EpochInv
  <2>5. \A d \in hist' : pc'[d] = "lost" /\ disk'[d] \in Record
    BY <2>2, <2>3 DEF TypeOK, EpochInv
  <2> QED
    BY <2>4, <2>5 DEF EpochInv
<1>5. LeasesFollowOperations'
  BY LeasesKept DEF Owes, Active
<1> QED
  BY <1>2, <1>3, <1>4, <1>5

\* The rename of a write.
LEMMA WriteLandsStep == ASSUME IInv, NEW c \in Calls, WriteLands(c) PROVE IInv'
<1>1. queue[c] # <<>> /\ TypeOK
  BY DEF WriteLands, AtStore, IInv
<1> DEFINE e == [queue[c][1] EXCEPT !.renamed = TRUE]
<1>2. queue[c][1] \in DurableWrite /\ queue[c][1].rec \in Record
  BY <1>1, HeadWrite
<1>3. e \in DurableWrite
  BY <1>2 DEF DurableWrite
<1>4. /\ queue' = [queue EXCEPT ![c] = [queue[c] EXCEPT ![1] = e]]
      /\ disk' = [disk EXCEPT ![c] = queue[c][1].rec]
      /\ UNCHANGED <<handlerVars, sharedVars, startVars, worldVars>>
  BY DEF WriteLands
<1>5. faults' \in 0..MaxFaults
  BY <1>1, <1>4 DEF TypeOK
<1> HIDE DEF e
<1> QED
  BY <1>1, <1>2, <1>3, <1>4, <1>5, HeadStep

\* A new attempt of the write at the head.
LEMMA AttemptStep ==
  ASSUME IInv, NEW c \in Calls, queue[c] # <<>>, NEW n \in 0..2,
         queue' = [queue EXCEPT ![c][1].attempt = n], faults' \in 0..MaxFaults,
         UNCHANGED <<handlerVars, sharedVars, disk, startVars, sent, live, crashes>>
  PROVE  IInv'
<1> DEFINE e == [queue[c][1] EXCEPT !.attempt = n]
<1>1. queue[c][1] \in DurableWrite /\ queue[c][1].rec \in Record
  BY HeadWrite DEF IInv
<1>2. e \in DurableWrite
  BY <1>1 DEF DurableWrite
<1>3. queue' = [queue EXCEPT ![c] = [queue[c] EXCEPT ![1] = e]]
  OBVIOUS
<1> HIDE DEF e
<1> QED
  BY <1>1, <1>2, <1>3, HeadStep

\* The directory sync.
LEMMA WriteSyncedStep == ASSUME IInv, NEW c \in Calls, WriteSynced(c) PROVE IInv'
<1>1. queue[c] # <<>> /\ Finish(c, TRUE) /\ UNCHANGED <<disk, faults>> /\ faults' \in 0..MaxFaults
  BY DEF WriteSynced, AtStore, IInv, TypeOK
<1> QED
  BY <1>1, FinishStep

\* A failed attempt is repeated once.
LEMMA WriteFailsStep == ASSUME IInv, NEW c \in Calls, WriteFails(c) PROVE IInv'
<1>1. queue[c] # <<>> /\ faults' \in 0..MaxFaults /\ UNCHANGED disk
  BY CoreAssumption DEF WriteFails, AtStore, IInv, TypeOK
<1>2. CASE queue[c][1].attempt = 1 /\ ~poisoned
  <2>1. /\ queue' = [queue EXCEPT ![c][1].attempt = 2]
        /\ UNCHANGED <<handlerVars, sharedVars, startVars, sent, live, crashes>>
    <3>1. \/ /\ queue' = [queue EXCEPT ![c][1].attempt = 2]
             /\ UNCHANGED <<handlerVars, sharedVars, startVars, sent, live, crashes>>
          \/ queue[c][1].attempt = 2 \/ poisoned
      BY Zenon DEF WriteFails
    <3>2. ~(queue[c][1].attempt = 2 \/ poisoned)
      BY <1>2
    <3> QED
      BY <3>1, <3>2, Zenon
  <2> QED
    BY <1>1, <2>1, 2 \in 0..2, AttemptStep
<1>3. CASE ~(queue[c][1].attempt = 1 /\ ~poisoned)
  <2>1. Finish(c, FALSE)
    BY <1>3 DEF WriteFails
  <2> QED
    BY <1>1, <2>1, FinishStep
<1> QED
  BY <1>2, <1>3

\* The journal refuses a record.
LEMMA WriteRefusedStep == ASSUME IInv, NEW c \in Calls, WriteRefused(c) PROVE IInv'
<1>1. queue[c] # <<>> /\ Finish(c, FALSE) /\ UNCHANGED <<disk, faults>> /\ faults' \in 0..MaxFaults
  BY DEF WriteRefused, AtStore, IInv, TypeOK
<1> QED
  BY <1>1, FinishStep

\* A write whose turn has come.
LEMMA WriteStartsStep == ASSUME IInv, NEW c \in Calls, WriteStarts(c) PROVE IInv'
<1>1. queue[c] # <<>> /\ UNCHANGED <<disk, faults>> /\ faults' \in 0..MaxFaults
  BY DEF WriteStarts, IInv, TypeOK
<1>2. CASE ~poisoned
  <2>1. /\ queue' = [queue EXCEPT ![c][1].attempt = 1]
        /\ UNCHANGED <<handlerVars, sharedVars, startVars, sent, live, crashes>>
    BY <1>2 DEF WriteStarts
  <2> QED
    BY <1>1, <2>1, 1 \in 0..2, AttemptStep
<1>3. CASE poisoned
  <2>1. Finish(c, FALSE)
    BY <1>3 DEF WriteStarts
  <2> QED
    BY <1>1, <2>1, FinishStep
<1> QED
  BY <1>2, <1>3

\* The timer of a write poisons the storage and lets the waiting handler fail.
LEMMA DurableTimeoutStep == ASSUME IInv, NEW c \in Calls, DurableTimeout(c) PROVE IInv'
<1> USE DEF IInv
<1>1. PICK i \in 1..Len(queue[c]) : Answer(c, queue[c][i].tag, queue[c][i].rec, FALSE)
  BY DEF DurableTimeout
<1>2. /\ poisoned' = TRUE /\ sealed' = TRUE
      /\ UNCHANGED <<dedup, staged, aborted, started, viewFailed, slot, drain, storeVars,
                 initialized, serving, hist, evidence, heldPending, worldVars>>
  BY DEF DurableTimeout
<1>3. queue[c][i].tag \in Tags /\ queue[c][i].rec \in Record
  <2>1. queue[c] \in Seq(DurableWrite)
    BY DEF TypeOK
  <2>2. queue[c][i] \in DurableWrite
    BY <2>1
  <2> QED
    BY <2>2 DEF DurableWrite
<1>4. /\ pc' \in [Calls -> PCs] /\ mem' \in [Calls -> StoredRecord]
      /\ auth' \in [Calls -> {"none", "pending", "granted", "refused"}]
      /\ recon' \in [Calls -> {"none", "writing", "written"}]
      /\ refresh' \in Refresh
      /\ refresh'.todo \subseteq refresh.todo /\ refresh'.left \subseteq refresh.left
      /\ refresh'.cur \in {refresh.cur, NoCall}
      /\ \A d \in Calls : pc'[d] = pc[d] \/ {pc[d], pc'[d]} \subseteq Unsettled
      /\ \A d \in Calls : Owes(d)' <=> Owes(d)
      /\ HandlerInv'
  BY <1>1, <1>2, <1>3, AnswerKeeps
<1>5. TypeOK'
  BY <1>2, <1>4 DEF TypeOK
<1>6. EpochInv'
  <2>1. \A d \in Calls : pc'[d] \in Empty => disk'[d] = NoRecord /\ queue'[d] = <<>>
    BY <1>2, <1>4 DEF TypeOK, EpochInv, Empty, Unsettled, WriteTags
  <2>2. \A d \in hist' : pc'[d] = "lost" /\ disk'[d] \in Record
    <3>1. "lost" \notin Unsettled
      BY DEF Unsettled, WriteTags
    <3>2. \A d \in hist : d \in Calls /\ pc[d] = "lost" /\ disk[d] \in Record
      BY DEF TypeOK, EpochInv
    <3> QED
      BY <1>2, <1>4, <3>1, <3>2
  <2>3. ~initialized' => \A d \in Calls : pc'[d] \notin Unsettled \cup {"resolving", "settled"}
    BY <1>2, <1>4 DEF TypeOK, EpochInv
  <2> QED
    BY <1>2, <1>4, <2>1, <2>2, <2>3 DEF EpochInv
<1>7. LeasesFollowOperations'
  BY <1>2, <1>4, LeasesKept
<1> QED
  BY <1>4, <1>5, <1>6, <1>7

\* Recovery writes the settled record of a dead operation.
LEMMA RefreshWritesStep == ASSUME IInv, NEW c \in Calls, RefreshWrites(c) PROVE IInv'
<1> USE DEF IInv
<1>1. /\ c \in refresh.todo
      /\ UNCHANGED <<handlerVars, sharedVars, disk, initialized, serving, hist, evidence,
                 heldPending, worldVars>>
      /\ \/ Enqueue(c, "recover", Restored(mem[c])) /\ refresh' = [refresh EXCEPT !.cur = c]
         \/ refresh' = NoRefresh /\ UNCHANGED queue
  BY DEF RefreshWrites
<1>2. Restored(mem[c]) \in Record
  BY RestoredType DEF TypeOK
<1>3. queue' \in [Calls -> Seq(DurableWrite)] /\ \A d \in Calls \ {c} : queue'[d] = queue[d]
  BY <1>1, <1>2, EnqueueType DEF TypeOK, Enqueue, Tags
<1>4. /\ refresh' \in Refresh /\ refresh'.todo \subseteq refresh.todo
      /\ refresh'.left \subseteq refresh.left /\ refresh'.cur \in {c, NoCall}
  <2>1. refresh \in Refresh
    BY DEF TypeOK
  <2>2. CASE refresh' = NoRefresh
    BY <2>2 DEF Refresh, NoRefresh
  <2>3. CASE refresh' = [refresh EXCEPT !.cur = c]
    BY <2>1, <2>3 DEF Refresh
  <2> QED
    BY <1>1, <2>2, <2>3
<1>5. TypeOK'
  BY <1>1, <1>3, <1>4 DEF TypeOK
<1>6. HandlerInv'
  BY <1>1 DEF HandlerInv
<1>7. EpochInv'
  <2>1. c \in hist /\ pc[c] = "lost"
    BY <1>1 DEF EpochInv
  <2> QED
    BY <1>1, <1>3, <1>4, <2>1 DEF TypeOK, EpochInv, Empty
<1>8. LeasesFollowOperations'
  BY <1>1, LeasesKept DEF Owes, Active
<1> QED
  BY <1>5, <1>6, <1>7, <1>8

\* After the death of the process there is no lease and no handler.
LEMMA CrashStep == ASSUME IInv, Crash PROVE IInv'
<1> USE DEF IInv
<1>1. TypeOK'
  <2>1. NoRecord \in StoredRecord /\ <<>> \in Seq(DurableWrite)
    BY RecordFacts
  <2>2. NoRefresh \in Refresh /\ FreeSlot \in Slot
    BY DEF NoRefresh, Refresh, FreeSlot, Slot
  <2>3. drain' \in [phase : {"none", "waiting", "clean", "failed"}, waits : SUBSET Calls]
    BY DEF Crash, NoDrain
  <2>4. crashes' \in 0..MaxCrashes /\ faults' \in 0..MaxFaults
    BY CoreAssumption DEF Crash, TypeOK
  <2>5. /\ pc' \in [Calls -> PCs] /\ hist' \subseteq Calls
        /\ dedup' \in [Keys -> Calls \cup {NoCall}]
    BY DEF Crash, PCs, Answered
  <2>6. /\ mem' \in [Calls -> StoredRecord] /\ staged' \in [Calls -> StoredRecord]
        /\ disk' \in [Calls -> StoredRecord] /\ queue' \in [Calls -> Seq(DurableWrite)]
    BY <2>1 DEF Crash, TypeOK
  <2>7. slot' \in [Resources -> Slot] /\ refresh' \in Refresh
    BY <2>2 DEF Crash
  <2>8. /\ aborted' \in [Calls -> BOOLEAN] /\ started' \in [Calls -> BOOLEAN]
        /\ auth' \in [Calls -> {"none", "pending", "granted", "refused"}]
        /\ viewFailed' \in [Calls -> {"no", "stale", "cancelled"}]
        /\ recon' \in [Calls -> {"none", "writing", "written"}]
        /\ sealed' \in BOOLEAN /\ poisoned' \in BOOLEAN /\ initialized' \in BOOLEAN
        /\ serving' \in BOOLEAN /\ heldPending' \in BOOLEAN /\ evidence' \subseteq Calls
        /\ sent' \in [Calls -> BOOLEAN] /\ live' \in [Calls -> BOOLEAN]
    BY DEF Crash, TypeOK
  <2> QED
    BY <2>3, <2>4, <2>5, <2>6, <2>7, <2>8 DEF TypeOK
<1>2. \A c \in Calls : pc'[c] \in {"idle", "lost"}
  BY DEF Crash
<1>3. HandlerInv'
  BY <1>2 DEF Crash, HandlerInv, WriteTags, Unsettled
<1>4. EpochInv'
  <2>1. \A c \in Calls : disk[c] # NoRecord => disk[c] \in Record /\ pc[c] \notin Empty
    BY RecordFacts DEF TypeOK, EpochInv
  <2>2. \A c \in hist' : pc'[c] = "lost" /\ disk'[c] \in Record
    BY <2>1 DEF Crash, Empty
  <2>3. \A c \in Calls : pc'[c] \in Empty => disk'[c] = NoRecord /\ queue'[c] = <<>>
    BY DEF Crash, Empty, EpochInv
  <2>4. /\ evidence' = {} /\ refresh'.todo = {} /\ refresh'.left = {} /\ refresh'.cur = NoCall
    BY DEF Crash, NoRefresh
  <2> QED
    BY <1>2, <2>2, <2>3, <2>4 DEF EpochInv, WriteTags, Unsettled
<1>5. LeasesFollowOperations'
  <2>1. \A c \in Calls : ~Owes(c)'
    BY <1>2 DEF Owes, Active, WriteTags, Unsettled
  <2>2. \A c \in Calls, r \in Resources : slot'[r].op # c
    BY CoreAssumption DEF Crash, FreeSlot
  <2> QED
    BY <2>1, <2>2 DEF LeasesFollowOperations
<1> QED
  BY <1>1, <1>3, <1>4, <1>5

\* Recovery reads the journal before any operation of this process exists.
LEMMA InitializeStep == ASSUME IInv, Initialize PROVE IInv'
<1> USE DEF IInv
<1>1. \A c \in Calls : pc[c] \notin Unsettled \cup {"resolving", "settled"}
  BY DEF Initialize, EpochInv
<1>2. TypeOK'
  <2>1. mem' \in [Calls -> StoredRecord]
    BY RecordFacts DEF Initialize, TypeOK
  <2>2. dedup' \in [Keys -> Calls \cup {NoCall}]
    <3>1. \A k \in Keys : (\E c \in hist : KeyOf[c] = k)
                            => (CHOOSE c \in hist : KeyOf[c] = k) \in Calls
      BY DEF TypeOK
    <3> QED
      BY <3>1 DEF Initialize, RestoredKeys
  <2>3. evidence' \subseteq hist /\ refresh' \in Refresh
    BY DEF Initialize, TypeOK, Refresh
  <2> QED
    BY <2>1, <2>2, <2>3 DEF Initialize, TypeOK
<1>3. HandlerInv'
  BY <1>1 DEF Initialize, HandlerInv, WriteTags, Unsettled
<1>4. EpochInv'
  BY <1>1 DEF Initialize, EpochInv
<1>5. LeasesFollowOperations'
  BY <1>1, LeasesKept DEF Initialize, Owes, Active
<1> QED
  BY <1>2, <1>3, <1>4, <1>5

\* A stuttering step.
LEMMA StutterStep == ASSUME IInv, UNCHANGED vars PROVE IInv'
  BY DEF IInv, TypeOK, HandlerInv, EpochInv, LeasesFollowOperations, Owes, Active

\* The invariant holds initially.
LEMMA InitInv == Init => IInv
<1> SUFFICES ASSUME Init PROVE IInv
  OBVIOUS
<1>1. TypeOK
  <2>1. NoRecord \in StoredRecord /\ <<>> \in Seq(DurableWrite)
    BY RecordFacts
  <2>2. NoRefresh \in Refresh /\ FreeSlot \in Slot
    BY DEF NoRefresh, Refresh, FreeSlot, Slot
  <2>3. drain \in [phase : {"none", "waiting", "clean", "failed"}, waits : SUBSET Calls]
    BY DEF Init, NoDrain
  <2>4. /\ mem \in [Calls -> StoredRecord] /\ staged \in [Calls -> StoredRecord]
        /\ disk \in [Calls -> StoredRecord] /\ queue \in [Calls -> Seq(DurableWrite)]
    BY <2>1 DEF Init
  <2>5. slot \in [Resources -> Slot] /\ refresh \in Refresh
    BY <2>2 DEF Init
  <2>6. faults \in 0..MaxFaults /\ crashes \in 0..MaxCrashes
    BY CoreAssumption DEF Init
  <2> QED
    BY <2>3, <2>4, <2>5, <2>6 DEF Init, TypeOK, PCs
<1>2. HandlerInv
  BY DEF Init, HandlerInv, WriteTags, Unsettled
<1>3. EpochInv
  BY DEF Init, EpochInv, NoRefresh, WriteTags, Unsettled
<1>4. LeasesFollowOperations
  BY CoreAssumption DEF Init, LeasesFollowOperations, Owes, Active, FreeSlot, WriteTags, Unsettled
<1> QED
  BY <1>1, <1>2, <1>3, <1>4 DEF IInv

\* Every step preserves it: one case for each action.
LEMMA StepInv == IInv /\ [Next]_vars => IInv'
<1> SUFFICES ASSUME IInv, [Next]_vars PROVE IInv'
  OBVIOUS
<1>1. ASSUME NEW c \in Calls, Handler(c) PROVE IInv'
  BY <1>1, SubmitStep, AdmitStep, TargetStaleStep, CheckStep, ReadyStep, VerifyAcceptsStep,
     VerifyRejectsStep, CommitStep, GraceExpiresStep, CatchUnsentStep, CatchUnknownStep,
     SettleStep, AbortStep, CancelStep, ReconcileStep, ReconcileCommitStep DEF Handler
<1>2. ASSUME NEW c \in Calls, Adapter(c) PROVE IInv'
  BY <1>2, RequestAuthorizationStep, ViewRefusedStep, NativeSendStep, NativeStopsStep,
     AdapterReturnsStep, AdapterThrowsStep DEF Adapter
<1>3. ASSUME NEW c \in Calls, Store(c) PROVE IInv'
  BY <1>3, WriteLandsStep, WriteSyncedStep, WriteFailsStep, WriteRefusedStep,
     WriteStartsStep, DurableTimeoutStep DEF Store
<1>4. CASE Host
  BY <1>4, SealStep, UnsealStep, DrainStep, DrainEndsStep, CrashStep, InitializeStep,
     RefreshStartStep, RefreshEndsStep, RefreshKeepsStep, RefreshWritesStep DEF Host
<1>5. CASE UNCHANGED vars
  BY <1>5, StutterStep
<1> QED
  BY <1>1, <1>2, <1>3, <1>4, <1>5 DEF Next

-----------------------------------------------------------------------------
(* The theorems. *)

\* The inductive invariant holds in every behaviour of the runtime.
THEOREM InvariantHolds == Spec => []IInv
  BY InitInv, StepInv, PTL DEF Spec

\* Every variable of the runtime keeps its type: in particular every record
\* handed to the journal is a well-formed operation record, and a slot is held
\* by a known operation or by nobody.
THEOREM TypeCorrect == Spec => []TypeOK
<1>1. IInv => TypeOK
  BY DEF IInv
<1> QED
  BY <1>1, InvariantHolds, PTL

\* For any number of calls, keys and resources, whatever fails, times out,
\* is cancelled or dies: the leases of an operation are exactly what it asked
\* for while it is under way or owes a cleanup, and none otherwise.
THEOREM LeasesFollow == Spec => []LeasesFollowOperations
<1>1. IInv => LeasesFollowOperations
  BY DEF IInv
<1> QED
  BY <1>1, InvariantHolds, PTL

-----------------------------------------------------------------------------
(* A settled answer is final. *)

\* What a step may do to the answer of d.
Final(d) ==
  pc[d] = "settled" =>
    pc'[d] = "settled" /\ mem'[d] \in {mem[d], [mem[d] EXCEPT !.cleanup = "complete"]}

\* A handler that moves has not settled, and moves nobody else.
LEMMA HandlerFinal ==
  ASSUME IInv, NEW c \in Calls, Handler(c), NEW d \in Calls PROVE Final(d)
<1> USE DEF IInv, TypeOK, Final
<1>1. CASE Submit(c) \/ TargetStale(c) \/ Ready(c) \/ VerifyRejects(c) \/ GraceExpires(c)
  BY <1>1 DEF Submit, TargetStale, Ready, VerifyRejects, GraceExpires, Guarded, Goto
<1>2. CASE Admit(c)
  BY <1>2, PersistOrEffect DEF Admit, Goto, WriteTags
<1>3. CASE Check(c)
  <2>1. pc[c] = "check" /\ \A e \in Calls \ {c} : pc'[e] = pc[e] /\ mem'[e] = mem[e]
    BY <1>3 DEF Check, PersistOr, Goto
  <2> QED
    BY <2>1
<1>4. CASE VerifyAccepts(c)
  BY <1>4 DEF VerifyAccepts, PersistOr, Goto
<1>5. CASE Commit(c) \/ Settle(c)
  BY <1>5 DEF Commit, Settle, Goto
<1>6. CASE CatchUnsent(c) \/ CatchUnknown(c)
  BY <1>6 DEF CatchUnsent, CatchUnknown, PersistOr, Goto
<1>7. CASE Abort(c) \/ Reconcile(c)
  BY <1>7 DEF Abort, Reconcile
<1>8. CASE Cancel(c)
  <2>1. c \in Active /\ pc' = pc /\ \A e \in Calls \ {c} : mem'[e] = mem[e]
    BY <1>8 DEF Cancel
  <2>2. pc[c] # "settled"
    BY <2>1 DEF Active, Unsettled, WriteTags
  <2> QED
    BY <2>1, <2>2
<1>9. CASE ReconcileCommit(c)
  BY <1>9 DEF ReconcileCommit
<1> QED
  BY <1>1, <1>2, <1>3, <1>4, <1>5, <1>6, <1>7, <1>8, <1>9 DEF Handler

\* The adapter moves its own running handler at most.
LEMMA AdapterFinal ==
  ASSUME IInv, NEW c \in Calls, Adapter(c), NEW d \in Calls PROVE Final(d)
<1> USE DEF IInv, TypeOK, Final
<1>1. CASE RequestAuthorization(c) \/ ViewRefused(c) \/ NativeSend(c) \/ NativeStops(c)
  BY <1>1 DEF RequestAuthorization, ViewRefused, NativeSend, NativeStops
<1>2. CASE AdapterReturns(c) \/ AdapterThrows(c)
  BY <1>2 DEF AdapterReturns, AdapterThrows, Goto
<1> QED
  BY <1>1, <1>2 DEF Adapter

\* The end of a write, or its timer, finds no settled handler waiting.
LEMMA StoreFinal ==
  ASSUME IInv, NEW c \in Calls, Store(c), NEW d \in Calls PROVE Final(d)
<1>1. ASSUME NEW ok \in BOOLEAN, queue[c] # <<>>, Finish(c, ok) PROVE Final(d)
  <2>1. Answer(c, Head(queue[c]).tag, Head(queue[c]).rec, ok) /\ staged' = staged
    BY <1>1 DEF Finish
  <2>2. Head(queue[c]).tag \in Tags /\ Head(queue[c]).rec \in Record
    BY <1>1, HeadWrite DEF IInv
  <2> QED
    BY <2>1, <2>2, AnswerKeeps DEF Final, Unsettled, WriteTags
<1>2. CASE WriteLands(c) \/ (UNCHANGED <<pc, mem>>)
  BY <1>2 DEF WriteLands, Final
<1>3. CASE WriteSynced(c) \/ WriteRefused(c)
  BY <1>1, <1>3 DEF WriteSynced, WriteRefused, AtStore
<1>4. CASE WriteFails(c)
  BY <1>1, <1>2, <1>4, Zenon DEF WriteFails, AtStore
<1>5. CASE WriteStarts(c)
  BY <1>1, <1>2, <1>5, Zenon DEF WriteStarts
<1>6. CASE DurableTimeout(c)
  <2>1. PICK i \in 1..Len(queue[c]) : Answer(c, queue[c][i].tag, queue[c][i].rec, FALSE)
    BY <1>6 DEF DurableTimeout
  <2>2. queue[c] \in Seq(DurableWrite) /\ staged' = staged
    BY <1>6 DEF DurableTimeout, IInv, TypeOK
  <2>3. queue[c][i] \in DurableWrite
    BY <2>2
  <2>4. queue[c][i].tag \in Tags /\ queue[c][i].rec \in Record
    BY <2>3 DEF DurableWrite
  <2> QED
    BY <2>1, <2>2, <2>4, AnswerKeeps DEF Final, Unsettled, WriteTags
<1> QED
  BY <1>2, <1>3, <1>4, <1>5, <1>6 DEF Store

\* The host never touches a handler while the process lives: recovery loads
\* records before there is any.
LEMMA HostFinal ==
  ASSUME IInv, Host, crashes' = crashes, NEW d \in Calls PROVE Final(d)
<1>1. CASE Crash
  <2>1. crashes' = crashes + 1 /\ crashes \in Nat
    BY <1>1, CoreAssumption DEF Crash, IInv, TypeOK
  <2> QED
    BY <2>1
<1>2. CASE Initialize
  BY <1>2 DEF Initialize, IInv, EpochInv, Final
<1>3. CASE Seal \/ Unseal \/ Drain \/ DrainEnds \/ RefreshStart \/ RefreshEnds
  BY <1>3 DEF Seal, Unseal, Drain, DrainEnds, RefreshStart, RefreshEnds, Final
<1>4. CASE \E c \in Calls : RefreshKeeps(c) \/ RefreshWrites(c)
  BY <1>4 DEF RefreshKeeps, RefreshWrites, Final
<1> QED
  BY <1>1, <1>2, <1>3, <1>4 DEF Host

\* For any number of calls and whatever answers late: the record a caller was
\* given when the operation settled changes only from unresolved to complete
\* cleanup for as long as the runtime lives.
THEOREM AnswersAreFinal == Spec => AnswerIsFinal
<1> DEFINE A == \A c \in Calls :
       pc[c] = "settled" /\ crashes' = crashes =>
         /\ pc'[c] = "settled"
         /\ mem'[c] \in {mem[c], [mem[c] EXCEPT !.cleanup = "complete"]}
<1>1. IInv /\ [Next]_vars => [A]_vars
  <2> SUFFICES ASSUME IInv, Next, crashes' = crashes, NEW d \in Calls PROVE Final(d)
    BY DEF Final
  <2>1. CASE Host
    BY <2>1, HostFinal
  <2>2. ASSUME NEW c \in Calls, Handler(c) \/ Adapter(c) \/ Store(c) PROVE Final(d)
    BY <2>2, HandlerFinal, AdapterFinal, StoreFinal
  <2> QED
    BY <2>1, <2>2 DEF Next
<1> QED
  BY <1>1, InvariantHolds, PTL DEF Spec, AnswerIsFinal

-----------------------------------------------------------------------------
(* The stronger inductive invariant. *)

\* An operation of this runtime.
Begun(c) == pc[c] \in Unsettled \cup {"settled"}

\* An operation of this runtime, or one that the journal knows.
Entered(c) == disk[c] # NoRecord \/ Begun(c)

\* Up to here the adapter may still send.
BeforeEnd == {"registered", "check", "dispatching", "ready", "running"}

\* What a write on its way carries.  Only the oldest of its queue may be visible
\* already, and the final record of a handler that waits for it is the youngest.
WriteInv(c, i) ==
  LET w == queue[c][i] IN
  /\ w.renamed => i = 1 /\ disk[c] = w.rec
  /\ w.tag = "dispatching" => w.rec.state = "dispatching"
  /\ w.tag = "auth" => w.rec.gate = "send-authorized"
  /\ w.tag = "reconcile" => w.rec.cleanup = "complete"
  /\ w.tag = "recover" => c \in hist /\ ~NeedsRecovery(w.rec)
  /\ c \in hist => w.tag = "recover" /\ w.rec.gate = mem[c].gate
  /\ w.tag = "committing" => pc[c] \notin BeforeEnd \cup {"verifying"}
  /\ w.tag = "committing" /\ pc[c] = "committing" => i = Len(queue[c]) /\ w.rec = staged[c]
  /\ w.rec.cleanup = "complete" => ~live[c] /\ pc[c] \notin BeforeEnd

\* The writes on their way for a call; only operations that exist have any.
QueueInv(c) ==
  /\ \A i \in 1..Len(queue[c]) : WriteInv(c, i)
  /\ queue[c] # <<>> => c \in hist \/ Begun(c)

\* What the journal says, against the place of the handler and the grant.
DiskInv(c) ==
  /\ disk[c].cleanup = "complete" => ~live[c] /\ pc[c] \notin BeforeEnd
  /\ started[c] \/ pc[c] = "ready" => disk[c].state \notin {"absent", "registered"}
  /\ sent[c] \/ auth[c] = "granted" => disk[c].gate = "send-authorized"
  /\ pc[c] = "commit" => disk[c] = staged[c] /\ queue[c] = <<>>
  /\ pc[c] = "settled" /\ mem[c].state = "completed" =>
       disk[c] = mem[c] /\ queue[c] = <<>> /\ recon[c] = "none"
  /\ recon[c] = "written" => disk[c].cleanup = "complete"
  /\ disk[c] # NoRecord => c \in hist \/ Begun(c)
  /\ c \in hist /\ initialized => mem[c].gate = disk[c].gate

\* What may act on the machine, and that it still owes its leases.
EffectInv(c) ==
  /\ live[c] => sent[c]
  /\ sent[c] => started[c] \/ pc[c] = "lost"
  /\ started[c] => Begun(c)
  /\ pc[c] = "running" => started[c]
  /\ pc[c] \in {"releasing", "release"} => ~live[c]
  /\ pc[c] \in {"releasing", "release", "quarantining", "settle"} => staged[c].state # "completed"
  /\ live[c] /\ pc[c] # "lost" => Owes(c)

\* All of it, of every call.
CallInv == \A c \in Calls : QueueInv(c) /\ DiskInv(c) /\ EffectInv(c)

\* A lease is quarantined exactly at the end of an operation that has not cleaned up.
Ended == {"quarantining", "settle", "settled"}

SlotInv ==
  \A r \in Resources :
    /\ slot[r].op = NoCall => slot[r] = FreeSlot
    /\ slot[r].op # NoCall => slot[r].state = IF pc[slot[r].op] \in Ended THEN "quarantined" ELSE "active"

\* Startup recovery loses sight of no operation that needs it, and nothing of this
\* runtime begins before all of them are settled.
Opened == (initialized /\ ~sealed) \/ \E c \in Calls : Begun(c) \/ pc[c] = "resolving"

RecoveryInv ==
  /\ refresh.on \/ serving => initialized
  /\ ~initialized => \A c \in Calls : queue[c] = <<>>
  /\ poisoned => sealed
  /\ initialized => \A c \in hist : NeedsRecovery(disk[c]) =>
       c \in evidence /\ (refresh.on => c \in refresh.todo \cup refresh.left)
  /\ Opened => \A c \in hist : ~NeedsRecovery(disk[c])

\* One request key is entered once for one payload.
KeyInv ==
  /\ initialized => \A c \in Calls : Entered(c) => dedup[KeyOf[c]] # NoCall
  /\ \A c, d \in Calls : pc[d] = "resolving" /\ KeyOf[c] = KeyOf[d] /\ Entered(c) =>
       pc[c] \in {"registered", "failing"}
  /\ \A c, d \in Calls : c # d /\ KeyOf[c] = KeyOf[d] /\ PayloadOf[c] = PayloadOf[d] =>
       ~(Entered(c) /\ Entered(d))

\* The strengthening of IInv.
SafeInv == CallInv /\ SlotInv /\ RecoveryInv /\ KeyInv

USE DEF vars, handlerVars, sharedVars, storeVars, startVars, worldVars

-----------------------------------------------------------------------------
(* Steps of one call. *)

\* What the invariant says of a call does not change when none of this does.
Same(d) ==
  /\ pc'[d] = pc[d] /\ mem'[d] = mem[d] /\ staged'[d] = staged[d] /\ started'[d] = started[d]
  /\ auth'[d] = auth[d] /\ recon'[d] = recon[d] /\ queue'[d] = queue[d] /\ disk'[d] = disk[d]
  /\ sent'[d] = sent[d] /\ live'[d] = live[d]

\* A step of c is about c.
LEMMA CallStep ==
  ASSUME CallInv, NEW c \in Calls, \A d \in Calls \ {c} : Same(d), UNCHANGED <<hist, initialized>>,
         QueueInv(c)', DiskInv(c)', EffectInv(c)'
  PROVE  CallInv'
<1> SUFFICES ASSUME NEW d \in Calls, d # c PROVE QueueInv(d)' /\ DiskInv(d)' /\ EffectInv(d)'
  BY DEF CallInv
<1>1. Same(d) /\ QueueInv(d) /\ DiskInv(d) /\ EffectInv(d)
  BY DEF CallInv
<1>2. QueueInv(d)'
  BY <1>1 DEF Same, QueueInv, WriteInv, Begun
<1>3. DiskInv(d)'
  BY <1>1 DEF Same, DiskInv, Begun
<1>4. EffectInv(d)'
  BY <1>1 DEF Same, EffectInv, Begun, Owes, Active
<1> QED
  BY <1>2, <1>3, <1>4

\* The queue of a call with one more write.
QueueGrew(c, tag, rec) ==
  /\ Len(queue'[c]) = Len(queue[c]) + 1 /\ Len(queue[c]) \in Nat
  /\ \A i \in 1..Len(queue[c]) : queue'[c][i] = queue[c][i]
  /\ queue'[c][Len(queue'[c])].tag = tag /\ queue'[c][Len(queue'[c])].rec = rec
  /\ queue'[c][Len(queue'[c])].renamed = FALSE
  /\ queue'[c] # <<>>
  /\ \A d \in Calls \ {c} : queue'[d] = queue[d]

\* What Enqueue does to it.
LEMMA QueueGrows ==
  ASSUME TypeOK, NEW c \in Calls, NEW tag \in Tags, NEW rec \in Record, Enqueue(c, tag, rec)
  PROVE  QueueGrew(c, tag, rec)
<1>1. Write(tag, rec, queue[c]) \in DurableWrite
  BY WriteType
<1>2. queue[c] \in Seq(DurableWrite) /\ queue'[c] = Append(queue[c], Write(tag, rec, queue[c]))
  BY DEF Enqueue, TypeOK
<1>3. /\ Len(queue'[c]) = Len(queue[c]) + 1 /\ Len(queue[c]) \in Nat
      /\ \A i \in 1..Len(queue[c]) : queue'[c][i] = queue[c][i]
      /\ queue'[c][Len(queue'[c])] = Write(tag, rec, queue[c]) /\ queue'[c] # <<>>
  BY <1>1, <1>2
<1>4. \A d \in Calls \ {c} : queue'[d] = queue[d]
  BY DEF Enqueue, TypeOK
<1> QED
  BY <1>3, <1>4 DEF Write, QueueGrew

\* A request that waits for its target is not an operation yet.
LEMMA SubmitCall == ASSUME IInv, CallInv, NEW c \in Calls, Submit(c) PROVE CallInv'
<1> USE DEF IInv, Submit, Goto
<1>0. QueueInv(c) /\ DiskInv(c) /\ EffectInv(c)
  BY DEF CallInv
<1>1. (\A d \in Calls \ {c} : Same(d)) /\ UNCHANGED <<hist, initialized>>
  BY DEF TypeOK, Same
<1>2. QueueInv(c)'
  BY <1>0 DEF TypeOK, HandlerInv, EpochInv, QueueInv, WriteInv, Begun, BeforeEnd, Unsettled, WriteTags
<1>3. DiskInv(c)'
  BY <1>0 DEF TypeOK, HandlerInv, EpochInv, DiskInv, EffectInv, Begun, BeforeEnd, Unsettled, WriteTags
<1>4. EffectInv(c)'
  BY <1>0 DEF TypeOK, HandlerInv, EpochInv, EffectInv, DiskInv, Begun, BeforeEnd, Owes, Active, Unsettled, WriteTags
<1> QED
  BY <1>1, <1>2, <1>3, <1>4, CallStep

\* A request whose target is gone never becomes one.
LEMMA TargetStaleCall == ASSUME IInv, CallInv, NEW c \in Calls, TargetStale(c) PROVE CallInv'
<1> USE DEF IInv, TargetStale, Goto
<1>0. QueueInv(c) /\ DiskInv(c) /\ EffectInv(c)
  BY DEF CallInv
<1>1. (\A d \in Calls \ {c} : Same(d)) /\ UNCHANGED <<hist, initialized>>
  BY DEF TypeOK, Same
<1>2. QueueInv(c)'
  BY <1>0 DEF TypeOK, HandlerInv, EpochInv, QueueInv, WriteInv, Begun, BeforeEnd, Unsettled, WriteTags
<1>3. DiskInv(c)'
  BY <1>0 DEF TypeOK, HandlerInv, EpochInv, DiskInv, EffectInv, Begun, BeforeEnd, Unsettled, WriteTags
<1>4. EffectInv(c)'
  BY <1>0 DEF TypeOK, HandlerInv, EpochInv, EffectInv, DiskInv, Begun, BeforeEnd, Owes, Active, Unsettled, WriteTags
<1> QED
  BY <1>1, <1>2, <1>3, <1>4, CallStep

\* The adapter starts only behind the durable "dispatching" record.
LEMMA ReadyCall == ASSUME IInv, CallInv, NEW c \in Calls, Ready(c) PROVE CallInv'
<1> USE DEF IInv, Ready, Goto
<1>0. QueueInv(c) /\ DiskInv(c) /\ EffectInv(c)
  BY DEF CallInv
<1>1. (\A d \in Calls \ {c} : Same(d)) /\ UNCHANGED <<hist, initialized>>
  BY DEF TypeOK, Same
<1>2. QueueInv(c)'
  BY <1>0 DEF TypeOK, HandlerInv, EpochInv, QueueInv, WriteInv, Begun, BeforeEnd, Unsettled, WriteTags
<1>3. DiskInv(c)'
  BY <1>0 DEF TypeOK, HandlerInv, EpochInv, DiskInv, EffectInv, Begun, BeforeEnd, Unsettled, WriteTags
<1>4. EffectInv(c)'
  BY <1>0 DEF TypeOK, HandlerInv, EpochInv, EffectInv, DiskInv, Begun, BeforeEnd, Owes, Active, Unsettled, WriteTags
<1> QED
  BY <1>1, <1>2, <1>3, <1>4, CallStep

\* A view that may not act refuses the send; nothing is sent.
LEMMA ViewRefusedCall == ASSUME IInv, CallInv, NEW c \in Calls, ViewRefused(c) PROVE CallInv'
<1> USE DEF IInv, ViewRefused, Goto
<1>0. QueueInv(c) /\ DiskInv(c) /\ EffectInv(c)
  BY DEF CallInv
<1>1. (\A d \in Calls \ {c} : Same(d)) /\ UNCHANGED <<hist, initialized>>
  BY DEF TypeOK, Same
<1>2. QueueInv(c)'
  BY <1>0 DEF TypeOK, HandlerInv, EpochInv, QueueInv, WriteInv, Begun, BeforeEnd, Unsettled, WriteTags
<1>3. DiskInv(c)'
  BY <1>0 DEF TypeOK, HandlerInv, EpochInv, DiskInv, EffectInv, Begun, BeforeEnd, Unsettled, WriteTags
<1>4. EffectInv(c)'
  BY <1>0 DEF TypeOK, HandlerInv, EpochInv, EffectInv, DiskInv, Begun, BeforeEnd, Owes, Active, Unsettled, WriteTags
<1> QED
  BY <1>1, <1>2, <1>3, <1>4, CallStep

\* What is sent was authorized in the journal.
LEMMA NativeSendCall == ASSUME IInv, CallInv, NEW c \in Calls, NativeSend(c) PROVE CallInv'
<1> USE DEF IInv, NativeSend, Goto
<1>0. QueueInv(c) /\ DiskInv(c) /\ EffectInv(c)
  BY DEF CallInv
<1>1. (\A d \in Calls \ {c} : Same(d)) /\ UNCHANGED <<hist, initialized>>
  BY DEF TypeOK, Same
<1>2. QueueInv(c)'
  <2>1. UNCHANGED <<pc, mem, staged, queue, disk, hist>> /\ pc[c] = "running"
    OBVIOUS
  <2>2. pc[c] \in BeforeEnd /\ Begun(c) /\ c \notin hist
    BY <2>1 DEF EpochInv, BeforeEnd, Begun, Unsettled, WriteTags
  <2>3. \A i \in 1..Len(queue[c]) : WriteInv(c, i)'
    BY <1>0, <2>1, <2>2 DEF QueueInv, WriteInv
  <2> QED
    BY <2>1, <2>2, <2>3 DEF QueueInv, Begun
<1>3. DiskInv(c)'
  BY <1>0 DEF TypeOK, HandlerInv, EpochInv, DiskInv, EffectInv, Begun, BeforeEnd, Unsettled, WriteTags
<1>4. EffectInv(c)'
  BY <1>0 DEF TypeOK, HandlerInv, EpochInv, EffectInv, DiskInv, Begun, BeforeEnd, Owes, Active, Unsettled, WriteTags
<1> QED
  BY <1>1, <1>2, <1>3, <1>4, CallStep

\* The native helper stops acting.
LEMMA NativeStopsCall == ASSUME IInv, CallInv, NEW c \in Calls, NativeStops(c) PROVE CallInv'
<1> USE DEF IInv, NativeStops, Goto
<1>0. QueueInv(c) /\ DiskInv(c) /\ EffectInv(c)
  BY DEF CallInv
<1>1. (\A d \in Calls \ {c} : Same(d)) /\ UNCHANGED <<hist, initialized>>
  BY DEF TypeOK, Same
<1>2. QueueInv(c)'
  BY <1>0 DEF TypeOK, HandlerInv, EpochInv, QueueInv, WriteInv, Begun, BeforeEnd, Unsettled, WriteTags
<1>3. DiskInv(c)'
  BY <1>0 DEF TypeOK, HandlerInv, EpochInv, DiskInv, EffectInv, Begun, BeforeEnd, Unsettled, WriteTags
<1>4. EffectInv(c)'
  BY <1>0 DEF TypeOK, HandlerInv, EpochInv, EffectInv, DiskInv, Begun, BeforeEnd, Owes, Active, Unsettled, WriteTags
<1> QED
  BY <1>1, <1>2, <1>3, <1>4, CallStep

\* The adapter answers; what it claims is not believed yet.
LEMMA AdapterReturnsCall == ASSUME IInv, CallInv, NEW c \in Calls, AdapterReturns(c) PROVE CallInv'
<1> USE DEF IInv, AdapterReturns, Goto
<1>0. QueueInv(c) /\ DiskInv(c) /\ EffectInv(c)
  BY DEF CallInv
<1>1. (\A d \in Calls \ {c} : Same(d)) /\ UNCHANGED <<hist, initialized>>
  BY DEF TypeOK, Same
<1>2. QueueInv(c)'
  <2>1. /\ pc[c] = "running" /\ pc'[c] \in {"verifying", "failing"}
        /\ UNCHANGED <<queue, disk, hist, live, mem>>
    BY DEF TypeOK
  <2> QED
    BY <1>0, <2>1 DEF QueueInv, WriteInv, Begun, BeforeEnd, Unsettled, WriteTags
<1>3. DiskInv(c)'
  BY <1>0 DEF TypeOK, HandlerInv, EpochInv, DiskInv, EffectInv, Begun, BeforeEnd, Unsettled, WriteTags
<1>4. EffectInv(c)'
  BY <1>0 DEF TypeOK, HandlerInv, EpochInv, EffectInv, DiskInv, Begun, BeforeEnd, Owes, Active, Unsettled, WriteTags
<1> QED
  BY <1>1, <1>2, <1>3, <1>4, CallStep

\* The adapter fails, perhaps while its effect goes on.
LEMMA AdapterThrowsCall == ASSUME IInv, CallInv, NEW c \in Calls, AdapterThrows(c) PROVE CallInv'
<1> USE DEF IInv, AdapterThrows, Goto
<1>0. QueueInv(c) /\ DiskInv(c) /\ EffectInv(c)
  BY DEF CallInv
<1>1. (\A d \in Calls \ {c} : Same(d)) /\ UNCHANGED <<hist, initialized>>
  BY DEF TypeOK, Same
<1>2. QueueInv(c)'
  BY <1>0 DEF TypeOK, HandlerInv, EpochInv, QueueInv, WriteInv, Begun, BeforeEnd, Unsettled, WriteTags
<1>3. DiskInv(c)'
  BY <1>0 DEF TypeOK, HandlerInv, EpochInv, DiskInv, EffectInv, Begun, BeforeEnd, Unsettled, WriteTags
<1>4. EffectInv(c)'
  BY <1>0 DEF TypeOK, HandlerInv, EpochInv, EffectInv, DiskInv, Begun, BeforeEnd, Owes, Active, Unsettled, WriteTags
<1> QED
  BY <1>1, <1>2, <1>3, <1>4, CallStep

\* The outcome is refused by the verification.
LEMMA VerifyRejectsCall == ASSUME IInv, CallInv, NEW c \in Calls, VerifyRejects(c) PROVE CallInv'
<1> USE DEF IInv, VerifyRejects, Goto
<1>0. QueueInv(c) /\ DiskInv(c) /\ EffectInv(c)
  BY DEF CallInv
<1>1. (\A d \in Calls \ {c} : Same(d)) /\ UNCHANGED <<hist, initialized>>
  BY DEF TypeOK, Same
<1>2. QueueInv(c)'
  BY <1>0 DEF TypeOK, HandlerInv, EpochInv, QueueInv, WriteInv, Begun, BeforeEnd, Unsettled, WriteTags
<1>3. DiskInv(c)'
  BY <1>0 DEF TypeOK, HandlerInv, EpochInv, DiskInv, EffectInv, Begun, BeforeEnd, Unsettled, WriteTags
<1>4. EffectInv(c)'
  BY <1>0 DEF TypeOK, HandlerInv, EpochInv, EffectInv, DiskInv, Begun, BeforeEnd, Owes, Active, Unsettled, WriteTags
<1> QED
  BY <1>1, <1>2, <1>3, <1>4, CallStep

\* The terminal record that was written becomes the answer.
LEMMA CommitCall == ASSUME IInv, CallInv, NEW c \in Calls, Commit(c) PROVE CallInv'
<1> USE DEF IInv, Commit, Goto
<1>0. QueueInv(c) /\ DiskInv(c) /\ EffectInv(c)
  BY DEF CallInv
<1>1. (\A d \in Calls \ {c} : Same(d)) /\ UNCHANGED <<hist, initialized>>
  BY DEF TypeOK, Same
<1>2. QueueInv(c)'
  BY <1>0 DEF TypeOK, HandlerInv, EpochInv, QueueInv, WriteInv, Begun, BeforeEnd, Unsettled, WriteTags
<1>3. DiskInv(c)'
  BY <1>0 DEF TypeOK, HandlerInv, EpochInv, DiskInv, EffectInv, Begun, BeforeEnd, Unsettled, WriteTags
<1>4. EffectInv(c)'
  BY <1>0 DEF TypeOK, HandlerInv, EpochInv, EffectInv, DiskInv, Begun, BeforeEnd, Owes, Active, Unsettled, WriteTags
<1> QED
  BY <1>1, <1>2, <1>3, <1>4, CallStep

\* The grace period ends before the adapter answers.
LEMMA GraceExpiresCall == ASSUME IInv, CallInv, NEW c \in Calls, GraceExpires(c) PROVE CallInv'
<1> USE DEF IInv, GraceExpires, Goto, Guarded
<1>0. QueueInv(c) /\ DiskInv(c) /\ EffectInv(c)
  BY DEF CallInv
<1>1. (\A d \in Calls \ {c} : Same(d)) /\ UNCHANGED <<hist, initialized>>
  BY DEF TypeOK, Same
<1>2. QueueInv(c)'
  BY <1>0 DEF TypeOK, HandlerInv, EpochInv, QueueInv, WriteInv, Begun, BeforeEnd, Unsettled, WriteTags
<1>3. DiskInv(c)'
  BY <1>0 DEF TypeOK, HandlerInv, EpochInv, DiskInv, EffectInv, Begun, BeforeEnd, Unsettled, WriteTags
<1>4. EffectInv(c)'
  BY <1>0 DEF TypeOK, HandlerInv, EpochInv, EffectInv, DiskInv, Begun, BeforeEnd, Owes, Active, Unsettled, WriteTags
<1> QED
  BY <1>1, <1>2, <1>3, <1>4, CallStep

\* The operation settles, after release or under quarantine.
LEMMA SettleCall == ASSUME IInv, CallInv, NEW c \in Calls, Settle(c) PROVE CallInv'
<1> USE DEF IInv, Settle, Goto
<1>0. QueueInv(c) /\ DiskInv(c) /\ EffectInv(c)
  BY DEF CallInv
<1>1. (\A d \in Calls \ {c} : Same(d)) /\ UNCHANGED <<hist, initialized>>
  BY DEF TypeOK, Same
<1>2. QueueInv(c)'
  BY <1>0 DEF TypeOK, HandlerInv, EpochInv, QueueInv, WriteInv, Begun, BeforeEnd, Unsettled, WriteTags
<1>3. DiskInv(c)'
  BY <1>0 DEF TypeOK, HandlerInv, EpochInv, DiskInv, EffectInv, Begun, BeforeEnd, Unsettled, WriteTags
<1>4. EffectInv(c)'
  BY <1>0 DEF TypeOK, HandlerInv, EpochInv, EffectInv, DiskInv, Begun, BeforeEnd, Owes, Active, Unsettled, WriteTags
<1> QED
  BY <1>1, <1>2, <1>3, <1>4, CallStep

\* The client goes away or the deadline passes.
LEMMA AbortCall == ASSUME IInv, CallInv, NEW c \in Calls, Abort(c) PROVE CallInv'
<1> USE DEF IInv, Abort, Goto
<1>0. QueueInv(c) /\ DiskInv(c) /\ EffectInv(c)
  BY DEF CallInv
<1>1. (\A d \in Calls \ {c} : Same(d)) /\ UNCHANGED <<hist, initialized>>
  BY DEF TypeOK, Same
<1>2. QueueInv(c)'
  BY <1>0 DEF TypeOK, HandlerInv, EpochInv, QueueInv, WriteInv, Begun, BeforeEnd, Unsettled, WriteTags
<1>3. DiskInv(c)'
  BY <1>0 DEF TypeOK, HandlerInv, EpochInv, DiskInv, EffectInv, Begun, BeforeEnd, Unsettled, WriteTags
<1>4. EffectInv(c)'
  BY <1>0 DEF TypeOK, HandlerInv, EpochInv, EffectInv, DiskInv, Begun, BeforeEnd, Owes, Active, Unsettled, WriteTags
<1> QED
  BY <1>1, <1>2, <1>3, <1>4, CallStep

\* The operation is asked to stop.
LEMMA CancelCall == ASSUME IInv, CallInv, NEW c \in Calls, Cancel(c) PROVE CallInv'
<1> USE DEF IInv, Cancel, Goto
<1>0. QueueInv(c) /\ DiskInv(c) /\ EffectInv(c)
  BY DEF CallInv
<1>1. (\A d \in Calls \ {c} : Same(d)) /\ UNCHANGED <<hist, initialized>>
  BY DEF TypeOK, Same
<1>2. QueueInv(c)'
  BY <1>0 DEF TypeOK, HandlerInv, EpochInv, QueueInv, WriteInv, Begun, BeforeEnd, Unsettled, WriteTags
<1>3. DiskInv(c)'
  BY <1>0 DEF TypeOK, HandlerInv, EpochInv, DiskInv, EffectInv, Begun, BeforeEnd, Unsettled, WriteTags
<1>4. EffectInv(c)'
  BY <1>0 DEF TypeOK, HandlerInv, EpochInv, EffectInv, DiskInv, Begun, BeforeEnd, Owes, Active, Unsettled, WriteTags
<1> QED
  BY <1>1, <1>2, <1>3, <1>4, CallStep

\* Reconciliation ends: the journal holds the completed cleanup.
LEMMA ReconcileCommitCall == ASSUME IInv, CallInv, NEW c \in Calls, ReconcileCommit(c) PROVE CallInv'
<1> USE DEF IInv, ReconcileCommit, Goto
<1>0. QueueInv(c) /\ DiskInv(c) /\ EffectInv(c)
  BY DEF CallInv
<1>1. (\A d \in Calls \ {c} : Same(d)) /\ UNCHANGED <<hist, initialized>>
  BY DEF TypeOK, Same
<1>2. QueueInv(c)'
  BY <1>0 DEF TypeOK, HandlerInv, EpochInv, QueueInv, WriteInv, Begun, BeforeEnd, Unsettled, WriteTags
<1>3. DiskInv(c)'
  BY <1>0 DEF TypeOK, HandlerInv, EpochInv, DiskInv, EffectInv, Begun, BeforeEnd, Unsettled, WriteTags
<1>4. EffectInv(c)'
  BY <1>0 DEF TypeOK, HandlerInv, EpochInv, EffectInv, DiskInv, Begun, BeforeEnd, Owes, Active, Unsettled, WriteTags
<1> QED
  BY <1>1, <1>2, <1>3, <1>4, CallStep
\* A step that is not about calls leaves what is said of them alone.
LEMMA HostCall ==
  ASSUME CallInv, UNCHANGED <<pc, mem, staged, started, auth, recon, queue, disk, sent, live, hist, initialized>>
  PROVE  CallInv'
<1> SUFFICES ASSUME NEW d \in Calls PROVE QueueInv(d)' /\ DiskInv(d)' /\ EffectInv(d)'
  BY DEF CallInv
<1>1. QueueInv(d) /\ DiskInv(d) /\ EffectInv(d)
  BY DEF CallInv
<1> QED
  BY <1>1 DEF QueueInv, WriteInv, DiskInv, EffectInv, Begun, Owes, Active

\* What a handler may hand to the store, given where it stands and where it goes.
MayWrite(c, tag, rec) ==
  /\ tag # "recover"
  /\ tag = "dispatching" => rec.state = "dispatching"
  /\ tag = "auth" => rec.gate = "send-authorized"
  /\ tag = "reconcile" => rec.cleanup = "complete"
  /\ tag = "committing" => pc'[c] = "committing" /\ rec = staged'[c]
  /\ pc'[c] = "committing" => tag = "committing"
  /\ rec.cleanup = "complete" => ~live[c] /\ pc'[c] \notin BeforeEnd

\* The handler stays where it is, or goes on; only its first write finds no other.
GoesOn(c) ==
  \/ queue[c] = <<>>
  \/ pc'[c] = pc[c] /\ pc[c] # "committing"
  \/ /\ pc'[c] \in BeforeEnd => pc[c] \in BeforeEnd
     /\ pc'[c] # "verifying"
     /\ pc'[c] = "committing" => pc[c] = "verifying"

\* The writes of a call when one more is handed to the store.
LEMMA WriteAdded ==
  ASSUME TypeOK, NEW c \in Calls, NEW tag \in Tags, NEW rec \in Record, Enqueue(c, tag, rec),
         QueueInv(c), c \notin hist, UNCHANGED <<disk, live, hist>>,
         MayWrite(c, tag, rec), GoesOn(c), Begun(c)'
  PROVE  QueueInv(c)'
<1>0. QueueGrew(c, tag, rec)
  BY QueueGrows
<1>1. /\ Len(queue'[c]) = Len(queue[c]) + 1 /\ Len(queue[c]) \in Nat
      /\ \A i \in 1..Len(queue[c]) : queue'[c][i] = queue[c][i]
      /\ queue'[c][Len(queue'[c])].tag = tag /\ queue'[c][Len(queue'[c])].rec = rec
      /\ queue'[c][Len(queue'[c])].renamed = FALSE
  BY <1>0, Zenon DEF QueueGrew
<1> SUFFICES ASSUME NEW i \in 1..Len(queue'[c]) PROVE WriteInv(c, i)'
  BY DEF QueueInv
<1>2. CASE i = Len(queue'[c])
  BY <1>1, <1>2 DEF WriteInv, MayWrite, BeforeEnd
<1>3. CASE i # Len(queue'[c])
  <2>1. i \in 1..Len(queue[c]) /\ queue[c] # <<>>
    BY <1>1, <1>3
  <2>2. WriteInv(c, i) /\ queue'[c][i] = queue[c][i]
    BY <2>1, <1>1 DEF QueueInv
  <2> QED
    BY <2>1, <2>2 DEF WriteInv, BeforeEnd, GoesOn, MayWrite
<1> QED
  BY <1>2, <1>3

\* The same for #persist, which writes nothing once the storage is poisoned.
LEMMA WritePersisted ==
  ASSUME TypeOK, NEW c \in Calls, NEW tag \in WriteTags, NEW rec \in Record, NEW p,
         PersistOr(c, tag, rec, p), QueueInv(c), c \notin hist, UNCHANGED <<disk, live, hist>>,
         pc'[c] = tag => MayWrite(c, tag, rec), GoesOn(c), Begun(c)',
         p \notin BeforeEnd \cup {"verifying", "committing"}, tag # p
  PROVE  QueueInv(c)'
<1>1. CASE poisoned
  <2>1. UNCHANGED queue /\ pc'[c] = p
    BY <1>1 DEF PersistOr, Goto, TypeOK
  <2> QED
    BY <2>1 DEF QueueInv, WriteInv
<1>2. CASE ~poisoned
  <2>1. Enqueue(c, tag, rec) /\ pc'[c] = tag
    BY <1>2 DEF PersistOr, Goto, TypeOK
  <2> QED
    BY <2>1, WriteAdded, PCFacts
<1> QED
  BY <1>1, <1>2

\* The first write of an operation.
LEMMA AdmitCall == ASSUME IInv, CallInv, NEW c \in Calls, Admit(c) PROVE CallInv'
<1> USE DEF IInv
<1>0. /\ QueueInv(c) /\ DiskInv(c) /\ EffectInv(c)
      /\ pc[c] = "resolving" /\ disk[c] = NoRecord /\ queue[c] = <<>> /\ c \notin hist
  BY DEF CallInv, Admit, EpochInv, Empty
<1>1. CASE ~AllFree(c)
  <2>1. /\ pc' = [pc EXCEPT ![c] = "busy"]
        /\ UNCHANGED <<slot, dedup, mem, queue, staged, aborted, started, auth, viewFailed, recon,
                 sealed, poisoned, drain, disk, startVars, worldVars>>
    BY <1>1 DEF Admit, Goto
  <2>2. (\A d \in Calls \ {c} : Same(d)) /\ pc'[c] = "busy"
    BY <2>1 DEF Same, TypeOK
  <2>3. QueueInv(c)' /\ DiskInv(c)' /\ EffectInv(c)'
    BY <1>0, <2>1, <2>2 DEF QueueInv, DiskInv, EffectInv, NoRecord, BeforeEnd, Begun, Unsettled, WriteTags, HandlerInv
  <2> QED
    BY <2>1, <2>2, <2>3, CallStep
<1>2. CASE AllFree(c)
  <2>1. /\ mem' = [mem EXCEPT ![c] = Registered] /\ PersistOr(c, "registered", Registered, "failing")
        /\ UNCHANGED <<staged, aborted, started, auth, viewFailed, recon,
                 sealed, poisoned, drain, disk, startVars, worldVars>>
    BY <1>2 DEF Admit
  <2>2. /\ (\A d \in Calls \ {c} : Same(d)) /\ pc'[c] \in {"registered", "failing"}
    BY <2>1, PersistOrEffect DEF Same, TypeOK, WriteTags
  <2>3. QueueInv(c)'
    <3>1. Registered \in Record /\ Begun(c)' /\ GoesOn(c)
      BY <1>0, <2>2, RecordFacts DEF Begun, Unsettled, WriteTags, GoesOn
    <3>2. MayWrite(c, "registered", Registered) \/ pc'[c] # "registered"
      BY <2>2 DEF MayWrite, Registered
    <3> QED
      BY <1>0, <2>1, <3>1, <3>2, WritePersisted DEF WriteTags, BeforeEnd
  <2>4. DiskInv(c)' /\ EffectInv(c)'
    BY <1>0, <2>1, <2>2 DEF TypeOK, HandlerInv, DiskInv, EffectInv, NoRecord, BeforeEnd, Begun, Owes, Active, Unsettled, WriteTags
  <2> QED
    BY <2>1, <2>2, <2>3, <2>4, CallStep
<1> QED
  BY <1>1, <1>2

\* The second write, or failure.
LEMMA CheckCall == ASSUME IInv, CallInv, NEW c \in Calls, Check(c) PROVE CallInv'
<1> USE DEF IInv
<1>0. /\ QueueInv(c) /\ DiskInv(c) /\ EffectInv(c) /\ pc[c] = "check" /\ c \notin hist
      /\ mem[c] \in Record /\ mem[c].cleanup = "pending" /\ recon[c] = "none"
      /\ UNCHANGED <<dedup, staged, aborted, started, auth, viewFailed, recon,
                 sharedVars, disk, startVars, worldVars>>
  BY DEF CallInv, Check, EpochInv, HandlerInv, TypeOK, Unsettled, WriteTags
<1>1. CASE UNCHANGED <<mem, queue>> /\ pc' = [pc EXCEPT ![c] = "failing"]
  <2>1. (\A d \in Calls \ {c} : Same(d)) /\ pc'[c] = "failing"
    BY <1>0, <1>1 DEF Same, TypeOK
  <2>2. QueueInv(c)' /\ DiskInv(c)' /\ EffectInv(c)'
    BY <1>0, <1>1, <2>1 DEF QueueInv, WriteInv, DiskInv, EffectInv, BeforeEnd, Begun, Owes, Active, Unsettled, WriteTags
  <2> QED
    BY <1>0, <2>1, <2>2, CallStep
<1>2. CASE /\ mem' = [mem EXCEPT ![c].state = "dispatching"]
           /\ PersistOr(c, "dispatching", mem'[c], "failing")
  <2>1. mem'[c] = [mem[c] EXCEPT !.state = "dispatching"] /\ \A d \in Calls \ {c} : mem'[d] = mem[d]
    BY <1>2 DEF TypeOK
  <2>2. mem'[c] \in Record /\ mem'[c].cleanup = "pending" /\ mem'[c].state = "dispatching"
    BY <1>0, <2>1 DEF Record, OperationStates
  <2>3. /\ (\A d \in Calls \ {c} : Same(d)) /\ pc'[c] \in {"dispatching", "failing"}
    BY <1>0, <1>2, <2>1, <2>2, PersistOrEffect DEF Same, TypeOK, WriteTags
  <2>4. QueueInv(c)'
    <3>1. Begun(c)' /\ GoesOn(c)
      BY <1>0, <2>3 DEF Begun, Unsettled, WriteTags, GoesOn, BeforeEnd
    <3>2. MayWrite(c, "dispatching", mem'[c]) \/ pc'[c] # "dispatching"
      BY <2>2, <2>3 DEF MayWrite
    <3> QED
      BY <1>0, <1>2, <2>2, <3>1, <3>2, WritePersisted DEF WriteTags, BeforeEnd
  <2>5. DiskInv(c)' /\ EffectInv(c)'
    BY <1>0, <2>3 DEF DiskInv, EffectInv, BeforeEnd, Begun, Owes, Active, Unsettled, WriteTags
  <2> QED
    BY <1>0, <2>3, <2>4, <2>5, CallStep
<1> QED
  BY <1>1, <1>2 DEF Check, Goto

\* The grant is asked for.
LEMMA RequestAuthorizationCall ==
  ASSUME IInv, CallInv, NEW c \in Calls, RequestAuthorization(c) PROVE CallInv'
<1> USE DEF IInv
<1>0. /\ QueueInv(c) /\ DiskInv(c) /\ EffectInv(c) /\ pc[c] = "running" /\ c \notin hist
      /\ mem[c] \in Record /\ mem[c].cleanup = "pending" /\ auth' = [auth EXCEPT ![c] = "pending"]
      /\ Enqueue(c, "auth", [mem[c] EXCEPT !.gate = "send-authorized"])
      /\ UNCHANGED <<pc, dedup, mem, staged, aborted, started, viewFailed, recon,
                 sharedVars, disk, startVars, worldVars>>
  BY DEF CallInv, RequestAuthorization, EpochInv, HandlerInv, Unsettled
<1> DEFINE rec == [mem[c] EXCEPT !.gate = "send-authorized"]
<1>1. rec \in Record /\ rec.cleanup = "pending" /\ rec.gate = "send-authorized"
  BY <1>0 DEF Record, SendGates
<1> HIDE DEF rec
<1>2. MayWrite(c, "auth", rec) /\ GoesOn(c) /\ Begun(c)'
  BY <1>0, <1>1 DEF MayWrite, GoesOn, Begun, Unsettled
<1>3. "auth" \in Tags /\ Enqueue(c, "auth", rec)
  BY <1>0 DEF rec, Tags
<1>4. QueueInv(c)'
  BY <1>0, <1>1, <1>2, <1>3, WriteAdded
<1>5. \A d \in Calls \ {c} : queue'[d] = queue[d]
  BY <1>1, <1>3, QueueGrows DEF QueueGrew
<1>6. \A d \in Calls \ {c} : Same(d)
  BY <1>0, <1>5 DEF Same, TypeOK
<1>7. DiskInv(c)' /\ EffectInv(c)'
  BY <1>0 DEF TypeOK, DiskInv, EffectInv, Begun, Owes, Active, Unsettled, WriteTags
<1> QED
  BY <1>0, <1>4, <1>6, <1>7, CallStep

\* The final record is handed to the store once the native status has confirmed it.
LEMMA VerifyAcceptsCall == ASSUME IInv, CallInv, NEW c \in Calls, VerifyAccepts(c) PROVE CallInv'
<1> USE DEF IInv
<1>0. /\ QueueInv(c) /\ DiskInv(c) /\ EffectInv(c) /\ pc[c] = "verifying" /\ c \notin hist
      /\ staged[c] \in Record /\ NativeConfirms(c) /\ recon[c] = "none"
      /\ UNCHANGED <<dedup, mem, staged, aborted, started, auth, viewFailed, recon,
                 sharedVars, disk, startVars, worldVars>>
  BY DEF CallInv, VerifyAccepts, EpochInv, HandlerInv, TypeOK, Unsettled, WriteTags
<1>1. CASE UNCHANGED queue /\ pc' = [pc EXCEPT ![c] = "failing"]
  <2>1. (\A d \in Calls \ {c} : Same(d)) /\ pc'[c] = "failing"
    BY <1>0, <1>1 DEF Same, TypeOK
  <2>2. QueueInv(c)' /\ DiskInv(c)' /\ EffectInv(c)'
    BY <1>0, <1>1, <2>1 DEF QueueInv, WriteInv, DiskInv, EffectInv, BeforeEnd, Begun, Owes, Active, Unsettled, WriteTags
  <2> QED
    BY <1>0, <2>1, <2>2, CallStep
<1>2. CASE PersistOr(c, "committing", staged[c], "failing")
  <2>1. /\ (\A d \in Calls \ {c} : Same(d)) /\ pc'[c] \in {"committing", "failing"}
    BY <1>0, <1>2, PersistOrEffect DEF Same, TypeOK, WriteTags
  <2>2. QueueInv(c)'
    <3>1. Begun(c)' /\ GoesOn(c)
      BY <1>0, <2>1 DEF Begun, Unsettled, WriteTags, GoesOn, BeforeEnd
    <3>2. MayWrite(c, "committing", staged[c]) \/ pc'[c] # "committing"
      BY <1>0 DEF MayWrite, NativeConfirms, BeforeEnd
    <3> QED
      BY <1>0, <1>2, <3>1, <3>2, WritePersisted DEF WriteTags, BeforeEnd
  <2>3. DiskInv(c)' /\ EffectInv(c)'
    BY <1>0, <2>1 DEF DiskInv, EffectInv, BeforeEnd, Begun, Owes, Active, Unsettled, WriteTags
  <2> QED
    BY <1>0, <2>1, <2>2, <2>3, CallStep
<1> QED
  BY <1>1, <1>2 DEF VerifyAccepts, Goto

\* A handler whose adapter sent nothing ends with complete cleanup.
LEMMA CatchUnsentCall == ASSUME IInv, CallInv, NEW c \in Calls, CatchUnsent(c) PROVE CallInv'
<1> USE DEF IInv
<1>1. PICK s \in {"cancelled", "rejected", "failed"} :
        LET rec == Staged(s, "complete", mem[c].gate)
        IN  staged' = [staged EXCEPT ![c] = rec] /\ PersistOr(c, "releasing", rec, "release")
  <2> DEFINE s == IF started[c] /\ viewFailed[c] = "cancelled" THEN "cancelled"
                  ELSE IF mem[c].state = "registered" THEN "rejected" ELSE "failed"
  <2>1. WITNESS s \in {"cancelled", "rejected", "failed"}
  <2> QED
    BY DEF CatchUnsent
<1> DEFINE rec == Staged(s, "complete", mem[c].gate)
<1>2. /\ QueueInv(c) /\ DiskInv(c) /\ EffectInv(c) /\ pc[c] = "failing" /\ c \notin hist
      /\ mem[c] \in Record /\ NothingSent(c) /\ recon[c] = "none" /\ auth[c] # "pending"
      /\ UNCHANGED <<dedup, mem, aborted, started, auth, viewFailed, recon,
                 slot, poisoned, drain, disk, startVars, worldVars>>
  BY DEF CallInv, CatchUnsent, EpochInv, HandlerInv, TypeOK, Unsettled, WriteTags
<1>3. rec \in Record /\ rec.state # "completed" /\ rec.cleanup = "complete"
  BY <1>2, RecordFacts DEF Staged, OperationStates, CleanupStates, Record
<1>4. ~live[c]
  BY <1>2 DEF NothingSent, RefusedUnsent, EffectInv
<1>5. staged' = [staged EXCEPT ![c] = rec] /\ PersistOr(c, "releasing", rec, "release")
  BY <1>1
<1> HIDE DEF rec
<1>6. (\A d \in Calls \ {c} : Same(d)) /\ pc'[c] \in {"releasing", "release"} /\ staged'[c] = rec
  BY <1>2, <1>3, <1>5, PersistOrEffect DEF Same, TypeOK, WriteTags
<1>7. QueueInv(c)'
  <2>1. Begun(c)' /\ GoesOn(c)
    BY <1>2, <1>6 DEF Begun, Unsettled, WriteTags, GoesOn, BeforeEnd
  <2>2. MayWrite(c, "releasing", rec)
    BY <1>4, <1>6 DEF MayWrite, BeforeEnd
  <2> QED
    BY <1>2, <1>3, <1>5, <2>1, <2>2, WritePersisted DEF WriteTags, BeforeEnd
<1>8. DiskInv(c)' /\ EffectInv(c)'
  BY <1>2, <1>3, <1>4, <1>6 DEF DiskInv, EffectInv, BeforeEnd, Begun, Owes, Active, Unsettled, WriteTags
<1> QED
  BY <1>2, <1>6, <1>7, <1>8, CallStep

\* A handler that may have sent something ends unknown.
LEMMA CatchUnknownCall == ASSUME IInv, CallInv, NEW c \in Calls, CatchUnknown(c) PROVE CallInv'
<1> USE DEF IInv
<1> DEFINE rec == Staged("interrupted-unknown", "unknown", mem[c].gate)
<1>2. /\ QueueInv(c) /\ DiskInv(c) /\ EffectInv(c) /\ pc[c] = "failing" /\ c \notin hist
      /\ mem[c] \in Record /\ recon[c] = "none" /\ auth[c] # "pending"
      /\ UNCHANGED <<dedup, mem, aborted, started, auth, viewFailed, recon,
                 poisoned, drain, disk, startVars, worldVars>>
  BY DEF CallInv, CatchUnknown, EpochInv, HandlerInv, TypeOK, Unsettled, WriteTags
<1>3. rec \in Record /\ rec.state # "completed" /\ rec.cleanup = "unknown"
  BY <1>2, RecordFacts DEF Staged, OperationStates, CleanupStates, Record
<1>5. staged' = [staged EXCEPT ![c] = rec] /\ PersistOr(c, "quarantining", rec, "settle")
  BY DEF CatchUnknown
<1> HIDE DEF rec
<1>6. (\A d \in Calls \ {c} : Same(d)) /\ pc'[c] \in {"quarantining", "settle"} /\ staged'[c] = rec
  BY <1>2, <1>3, <1>5, PersistOrEffect DEF Same, TypeOK, WriteTags
<1>7. QueueInv(c)'
  <2>1. Begun(c)' /\ GoesOn(c)
    BY <1>2, <1>6 DEF Begun, Unsettled, WriteTags, GoesOn, BeforeEnd
  <2>2. MayWrite(c, "quarantining", rec)
    BY <1>3, <1>6 DEF MayWrite, BeforeEnd
  <2> QED
    BY <1>2, <1>3, <1>5, <2>1, <2>2, WritePersisted DEF WriteTags, BeforeEnd
<1>8. DiskInv(c)' /\ EffectInv(c)'
  BY <1>2, <1>3, <1>6 DEF DiskInv, EffectInv, BeforeEnd, Begun, Owes, Active, Unsettled, WriteTags
<1> QED
  BY <1>2, <1>6, <1>7, <1>8, CallStep

\* The cleaned record of a settled operation is handed to the store.
LEMMA ReconcileCall == ASSUME IInv, CallInv, NEW c \in Calls, Reconcile(c) PROVE CallInv'
<1> USE DEF IInv
<1> DEFINE rec == [mem[c] EXCEPT !.cleanup = "complete"]
<1>1. /\ QueueInv(c) /\ DiskInv(c) /\ EffectInv(c) /\ pc[c] = "settled" /\ c \notin hist
      /\ mem[c] \in Record /\ recon' = [recon EXCEPT ![c] = "writing"] /\ mem[c].state # "completed"
      /\ Enqueue(c, "reconcile", rec) /\ ~live[c]
      /\ UNCHANGED <<pc, dedup, mem, staged, aborted, started, auth, viewFailed,
                 sharedVars, disk, startVars, worldVars>>
  BY DEF CallInv, Reconcile, EpochInv, HandlerInv, TypeOK
<1>2. rec \in Record /\ rec.cleanup = "complete"
  BY <1>1 DEF Record, CleanupStates
<1> HIDE DEF rec
<1>3. MayWrite(c, "reconcile", rec) /\ GoesOn(c) /\ Begun(c)'
  BY <1>1, <1>2 DEF MayWrite, GoesOn, Begun, BeforeEnd
<1>4. "reconcile" \in Tags
  BY DEF Tags
<1>5. QueueInv(c)'
  BY <1>1, <1>2, <1>3, <1>4, WriteAdded
<1>6. \A d \in Calls \ {c} : queue'[d] = queue[d]
  BY <1>1, <1>2, <1>4, QueueGrows DEF QueueGrew
<1>7. \A d \in Calls \ {c} : Same(d)
  BY <1>1, <1>6 DEF Same, TypeOK
<1>8. DiskInv(c)' /\ EffectInv(c)'
  BY <1>1 DEF TypeOK, DiskInv, EffectInv, Begun, Owes, Active, Unsettled, WriteTags
<1> QED
  BY <1>1, <1>5, <1>7, <1>8, CallStep

-----------------------------------------------------------------------------
(* Steps of the store. *)

\* What the journal never takes back: the state stays beyond registration, the
\* authorization and the complete cleanup stay.
LEMMA AcceptedKeeps ==
  ASSUME NEW old \in StoredRecord, NEW new \in Record, Accepts(old, new)
  PROVE  /\ old.state \notin {"absent", "registered"} => new.state \notin {"absent", "registered"}
         /\ old.gate = "send-authorized" => new.gate = "send-authorized"
         /\ old.cleanup = "complete" => new.cleanup = "complete"
         /\ ~NeedsRecovery(old) => ~NeedsRecovery(new)
<1>1. CASE old = NoRecord
  BY <1>1 DEF NoRecord, NeedsRecovery, IsTerminal, TerminalStates
<1>2. CASE old # NoRecord
  <2>1. /\ old \in Record /\ new \in Record /\ CanReach(old.state, new.state)
        /\ GateAdvances(old, new) /\ CleanupAdvances(old, new)
    BY <1>2, RecordFacts DEF Accepts
  <2>2. old.state \in OperationStates /\ new.state \in OperationStates
    BY <2>1 DEF Record
  <2>3. old.state # "registered" => new.state # "registered"
    BY <2>1, <2>2 DEF CanReach, Successors, OperationStates
  <2>4. old.state \in TerminalStates => new.state = old.state
    BY <2>1, <2>2 DEF CanReach, Successors, OperationStates, TerminalStates
  <2> QED
    BY <2>1, <2>2, <2>3, <2>4
       DEF OperationStates, GateAdvances, CleanupAdvances, NeedsRecovery, IsTerminal
<1> QED
  BY <1>1, <1>2

\* The write at the head of a queue has changed in its attempt, or has become
\* visible.
LEMMA HeadChanged ==
  ASSUME TypeOK, NEW c \in Calls, queue[c] # <<>>, NEW e \in DurableWrite,
         queue' = [queue EXCEPT ![c] = [queue[c] EXCEPT ![1] = e]],
         e.tag = queue[c][1].tag, e.rec = queue[c][1].rec,
         e.renamed => disk'[c] = e.rec, QueueInv(c),
         UNCHANGED <<pc, mem, staged, hist, live>>
  PROVE  QueueInv(c)'
<1>1. queue[c] \in Seq(DurableWrite)
  BY DEF TypeOK
<1>2. queue'[c] = [queue[c] EXCEPT ![1] = e]
  BY DEF TypeOK
<1>3. /\ Len(queue'[c]) = Len(queue[c]) /\ queue'[c][1] = e
      /\ \A i \in 1..Len(queue[c]) : i # 1 => queue'[c][i] = queue[c][i]
      /\ 1 \in 1..Len(queue[c])
  BY <1>1, <1>2
<1>4. ASSUME NEW i \in 1..Len(queue[c]) PROVE WriteInv(c, i)'
  <2>1. WriteInv(c, i) /\ WriteInv(c, 1)
    BY <1>3 DEF QueueInv
  <2>2. CASE i = 1
    BY <1>3, <2>1, <2>2 DEF WriteInv
  <2>3. CASE i # 1
    BY <1>3, <2>1, <2>3 DEF WriteInv
  <2> QED
    BY <2>2, <2>3
<1> QED
  BY <1>3, <1>4 DEF QueueInv, Begun

\* A new version becomes visible.
LEMMA WriteLandsCall == ASSUME IInv, CallInv, NEW c \in Calls, WriteLands(c) PROVE CallInv'
<1> USE DEF IInv
<1> DEFINE w == queue[c][1]
           e == [w EXCEPT !.renamed = TRUE]
<1>1. /\ queue[c] # <<>> /\ Accepts(disk[c], w.rec)
      /\ disk' = [disk EXCEPT ![c] = w.rec]
      /\ UNCHANGED <<handlerVars, sharedVars, startVars, worldVars>>
      /\ queue' = [queue EXCEPT ![c] = [queue[c] EXCEPT ![1] = e]]
  BY DEF WriteLands, AtStore
<1>2. w \in DurableWrite /\ w.rec \in Record
  BY <1>1, HeadWrite
<1>3. e \in DurableWrite /\ e.tag = w.tag /\ e.rec = w.rec
  BY <1>2 DEF DurableWrite
<1>4. disk[c] \in StoredRecord /\ disk'[c] = w.rec
  BY <1>1 DEF TypeOK
<1>5. QueueInv(c) /\ DiskInv(c) /\ EffectInv(c)
  BY DEF CallInv
<1>6. WriteInv(c, 1)
  <2>1. queue[c] \in Seq(DurableWrite)
    BY DEF TypeOK
  <2>2. 1 \in 1..Len(queue[c])
    BY <1>1, <2>1
  <2> QED
    BY <1>5, <2>2 DEF QueueInv
<1> HIDE DEF e
<1>7. QueueInv(c)'
  BY <1>1, <1>3, <1>4, <1>5, HeadChanged
<1>8. DiskInv(c)'
  <2>1. /\ w.rec.cleanup = "complete" => ~live[c] /\ pc[c] \notin BeforeEnd
        /\ c \in hist => w.rec.gate = mem[c].gate
        /\ c \in hist \/ Begun(c)
    BY <1>1, <1>5, <1>6 DEF WriteInv, QueueInv
  <2>2. /\ disk[c].state \notin {"absent", "registered"} => w.rec.state \notin {"absent", "registered"}
        /\ disk[c].gate = "send-authorized" => w.rec.gate = "send-authorized"
        /\ disk[c].cleanup = "complete" => w.rec.cleanup = "complete"
    BY <1>1, <1>2, <1>4, AcceptedKeeps
  <2> QED
    BY <1>1, <1>4, <1>5, <2>1, <2>2 DEF DiskInv, Begun
<1>9. EffectInv(c)'
  BY <1>1, <1>5 DEF EffectInv, Begun, Owes, Active
<1>10. \A d \in Calls \ {c} : Same(d)
  BY <1>1 DEF Same, TypeOK
<1> QED
  BY <1>1, <1>7, <1>8, <1>9, <1>10, CallStep

-----------------------------------------------------------------------------
\* Another attempt of a write says nothing new.
LEMMA AttemptCall ==
  ASSUME IInv, CallInv, NEW c \in Calls, queue[c] # <<>>, NEW n \in 0..2,
         queue' = [queue EXCEPT ![c][1].attempt = n],
         UNCHANGED <<handlerVars, sharedVars, disk, startVars, sent, live>>
  PROVE  CallInv'
<1> USE DEF IInv
<1> DEFINE e == [queue[c][1] EXCEPT !.attempt = n]
<1>1. queue[c][1] \in DurableWrite /\ queue[c] \in Seq(DurableWrite)
  BY HeadWrite DEF TypeOK
<1>2. /\ e \in DurableWrite /\ e.tag = queue[c][1].tag /\ e.rec = queue[c][1].rec
      /\ e.renamed = queue[c][1].renamed
  BY <1>1 DEF DurableWrite
<1>3. queue' = [queue EXCEPT ![c] = [queue[c] EXCEPT ![1] = e]]
  OBVIOUS
<1> HIDE DEF e
<1>4. QueueInv(c) /\ DiskInv(c) /\ EffectInv(c) /\ WriteInv(c, 1)
  BY <1>1 DEF CallInv, QueueInv
<1>5. e.renamed => disk'[c] = e.rec
  BY <1>2, <1>4 DEF WriteInv
<1>6. QueueInv(c)'
  BY <1>2, <1>3, <1>4, <1>5, HeadChanged
<1>7. queue'[c] # <<>> /\ \A d \in Calls \ {c} : queue'[d] = queue[d]
  BY <1>1, <1>2, <1>3, HeadReplaced DEF TypeOK
<1>8. DiskInv(c)' /\ EffectInv(c)'
  BY <1>4, <1>7 DEF DiskInv, EffectInv, Begun, Owes, Active
<1>9. \A d \in Calls \ {c} : Same(d)
  BY <1>7 DEF Same
<1> QED
  BY <1>6, <1>8, <1>9, CallStep

\* The writes of a call whose handler goes on, when the oldest may be gone.
LEMMA QueueShifts ==
  ASSUME TypeOK, NEW c \in Calls, queue[c] # <<>>, QueueInv(c),
         queue' = queue \/ queue' = [queue EXCEPT ![c] = Tail(queue[c])],
         UNCHANGED <<disk, staged, hist, live>>,
         pc'[c] \in BeforeEnd => pc[c] \in BeforeEnd,
         pc'[c] = "verifying" => pc[c] = "verifying",
         pc'[c] = "committing" => pc[c] = "committing",
         c \in hist => mem'[c].gate = mem[c].gate,
         Begun(c)' <=> Begun(c)
  PROVE  QueueInv(c)'
<1>1. PICK s \in {0, 1} :
        /\ Len(queue'[c]) = Len(queue[c]) - s
        /\ \A j \in 1..Len(queue'[c]) : j + s \in 1..Len(queue[c]) /\ queue'[c][j] = queue[c][j + s]
  <2>1. queue[c] \in Seq(DurableWrite)
    BY DEF TypeOK
  <2>2. CASE queue' = queue
    BY <2>1, <2>2
  <2>3. CASE queue' = [queue EXCEPT ![c] = Tail(queue[c])]
    <3>1. queue'[c] = Tail(queue[c])
      BY <2>3 DEF TypeOK
    <3>2. /\ Len(queue'[c]) = Len(queue[c]) - 1
          /\ \A j \in 1..Len(queue'[c]) : j + 1 \in 1..Len(queue[c]) /\ queue'[c][j] = queue[c][j + 1]
      BY <2>1, <3>1
    <3> QED
      BY <3>2
  <2> QED
    BY <2>2, <2>3
<1>2. Len(queue[c]) \in Nat
  BY DEF TypeOK
<1>3. ASSUME NEW j \in 1..Len(queue'[c]) PROVE WriteInv(c, j)'
  <2>1. WriteInv(c, j + s) /\ queue'[c][j] = queue[c][j + s]
    BY <1>1 DEF QueueInv
  <2>2. j = Len(queue'[c]) <=> j + s = Len(queue[c])
    BY <1>1, <1>2
  <2>3. j + s = 1 => j = 1
    BY <1>1
  <2> QED
    BY <2>1, <2>2, <2>3 DEF WriteInv
<1> QED
  BY <1>3 DEF QueueInv

\* Whoever waits for a write is answered; a good answer means that it is visible.
LEMMA AnswerCall ==
  ASSUME IInv, CallInv, NEW c \in Calls, NEW i \in 1..Len(queue[c]), NEW ok \in BOOLEAN,
         Answer(c, queue[c][i].tag, queue[c][i].rec, ok),
         ok => i = 1 /\ queue[c][i].renamed /\ queue' = [queue EXCEPT ![c] = Tail(queue[c])],
         queue' = queue \/ queue' = [queue EXCEPT ![c] = Tail(queue[c])],
         UNCHANGED <<disk, staged, started, sent, live, hist, initialized>>
  PROVE  CallInv'
<1> USE DEF IInv
<1> DEFINE w == queue[c][i]
<1>1. /\ w \in DurableWrite /\ w.tag \in Tags /\ w.rec \in Record /\ queue[c] # <<>>
      /\ queue[c] \in Seq(DurableWrite) /\ Len(queue[c]) \in Nat
  <2>1. queue[c] \in Seq(DurableWrite)
    BY DEF TypeOK
  <2>2. w \in DurableWrite /\ queue[c] # <<>> /\ Len(queue[c]) \in Nat
    BY <2>1
  <2> QED
    BY <2>1, <2>2 DEF DurableWrite
<1>2. QueueInv(c) /\ DiskInv(c) /\ EffectInv(c) /\ WriteInv(c, i)
  BY DEF CallInv, QueueInv
<1>3. ok => disk[c] = w.rec /\ queue'[c] = Tail(queue[c])
  BY <1>2 DEF WriteInv, TypeOK
<1>4. \A d \in Calls \ {c} : Same(d)
  BY DEF Same, TypeOK, Answer
<1>5. c \in hist => pc[c] = "lost"
  BY DEF EpochInv
<1>6. /\ w.tag = "dispatching" => w.rec.state = "dispatching"
      /\ w.tag = "auth" => w.rec.gate = "send-authorized"
      /\ w.tag = "reconcile" => w.rec.cleanup = "complete"
      /\ w.tag = "committing" /\ pc[c] = "committing" => i = Len(queue[c]) /\ w.rec = staged[c]
      /\ pc[c] # "commit" /\ ~(pc[c] = "settled" /\ mem[c].state = "completed")
  BY <1>1, <1>2 DEF WriteInv, DiskInv
<1>a. Answer(c, w.tag, w.rec, ok)
  OBVIOUS
<1> HIDE DEF w
<1>7. CASE ~Waiting(c, w.tag)
  <2>1. UNCHANGED <<pc, mem, auth, recon>>
    BY <1>7, <1>a DEF Answer
  <2>2. QueueInv(c)'
    BY <1>1, <1>2, <2>1, QueueShifts DEF Begun
  <2>3. DiskInv(c)' /\ EffectInv(c)'
    BY <1>2, <1>6, <2>1 DEF DiskInv, EffectInv, Begun, Owes, Active
  <2> QED
    BY <1>4, <2>2, <2>3, CallStep
<1>8. CASE Waiting(c, w.tag) /\ w.tag \in WriteTags
  <2>1. /\ pc[c] = w.tag /\ pc' = [pc EXCEPT ![c] = AfterWrite(w.tag, ok)]
        /\ UNCHANGED <<mem, auth, recon>>
    BY <1>8, <1>a DEF Answer, Waiting, WriteTags
  <2>2. /\ pc'[c] = AfterWrite(w.tag, ok) /\ pc[c] \in WriteTags /\ c \notin hist
    BY <1>5, <1>8, <2>1 DEF TypeOK, WriteTags
  <2>3. \/ pc[c] \in {"registered", "dispatching"} /\ pc'[c] \in {"check", "failing"}
        \/ pc[c] = "dispatching" /\ ok /\ pc'[c] = "ready"
        \/ pc[c] = "committing" /\ ok /\ pc'[c] = "commit"
        \/ pc[c] = "committing" /\ pc'[c] = "failing"
        \/ pc[c] = "releasing" /\ pc'[c] = "release"
        \/ pc[c] = "quarantining" /\ pc'[c] = "settle"
    BY <2>1, <2>2 DEF AfterWrite, WriteTags
  <2>4. QueueInv(c)'
    <3>1. /\ pc'[c] \in BeforeEnd => pc[c] \in BeforeEnd
          /\ pc'[c] # "verifying" /\ pc'[c] # "committing" /\ (Begun(c)' <=> Begun(c))
      BY <2>3 DEF BeforeEnd, Begun, Unsettled, WriteTags
    <3> QED
      BY <1>1, <1>2, <2>2, <3>1, QueueShifts
  <2>5. DiskInv(c)'
    <3>1. pc'[c] = "commit" => disk'[c] = staged'[c] /\ queue'[c] = <<>>
      <4>1. SUFFICES ASSUME pc'[c] = "commit" PROVE disk'[c] = staged'[c] /\ queue'[c] = <<>>
        OBVIOUS
      <4>2. ok /\ pc[c] = "committing"
        BY <2>3, <4>1
      <4>3. i = 1 /\ Len(queue[c]) = 1 /\ w.rec = staged[c] /\ disk[c] = w.rec /\ queue'[c] = Tail(queue[c])
        BY <1>3, <1>6, <2>1, <4>2
      <4>4. Tail(queue[c]) \in Seq(DurableWrite) /\ Len(Tail(queue[c])) = 0
        BY <1>1, <4>3
      <4> QED
        BY <4>3, <4>4, EmptySeq
    <3>2. pc'[c] = "ready" => disk'[c].state = "dispatching"
      BY <1>3, <1>6, <2>1, <2>3
    <3>3. pc'[c] \in BeforeEnd => pc[c] \in BeforeEnd
      BY <2>3 DEF BeforeEnd
    <3>4. pc'[c] # "settled" /\ Begun(c)' /\ UNCHANGED <<mem, auth, recon>>
      BY <2>1, <2>3 DEF Begun, Unsettled, WriteTags
    <3> QED
      BY <1>2, <2>2, <3>1, <3>2, <3>3, <3>4 DEF DiskInv
  <2>6. EffectInv(c)'
    BY <1>2, <2>1, <2>3 DEF EffectInv, Begun, Owes, Active, Unsettled, WriteTags
  <2> QED
    BY <1>4, <2>4, <2>5, <2>6, CallStep
<1>9. CASE Waiting(c, w.tag) /\ w.tag = "auth"
  <2>0. w.tag \notin WriteTags
    BY <1>9 DEF WriteTags
  <2>1. /\ auth[c] = "pending" /\ UNCHANGED <<pc, recon>>
        /\ auth'[c] = "refused" \/ (auth'[c] = "granted" /\ ok)
        /\ mem' = mem \/ mem' = [mem EXCEPT ![c].gate = w.rec.gate]
    <3>1. auth[c] = "pending" /\ UNCHANGED <<pc, recon>>
      BY <1>9, <1>a, <2>0 DEF Answer, Waiting
    <3>2. ASSUME ok = TRUE PROVE auth'[c] \in {"refused", "granted"}
      <4>1. Answer(c, w.tag, w.rec, TRUE)
        BY <1>a, <3>2
      <4>2. auth' = [auth EXCEPT ![c] = "granted"] \/ auth' = [auth EXCEPT ![c] = "refused"]
        BY <1>9, <4>1 DEF Answer
      <4> QED
        BY <4>2 DEF TypeOK
    <3>5. ASSUME ok = FALSE PROVE auth'[c] = "refused"
      <4>1. Answer(c, w.tag, w.rec, FALSE)
        BY <1>a, <3>5
      <4>2. auth' = [auth EXCEPT ![c] = "refused"]
        BY <1>9, <4>1 DEF Answer
      <4> QED
        BY <4>2 DEF TypeOK
    <3>3. auth'[c] = "refused" \/ (auth'[c] = "granted" /\ ok)
      BY <3>2, <3>5
    <3>4. mem' = mem \/ mem' = [mem EXCEPT ![c].gate = w.rec.gate]
      BY <1>9, <1>a DEF Answer
    <3> QED
      BY <3>1, <3>3, <3>4
  <2>2. pc[c] \in {"running", "failing"} /\ mem[c] \in Record /\ c \notin hist
    BY <1>5, <2>1 DEF HandlerInv, Unsettled
  <2>3. QueueInv(c)'
    BY <1>1, <1>2, <2>1, <2>2, QueueShifts DEF Begun
  <2>4. DiskInv(c)' /\ EffectInv(c)'
    BY <1>2, <1>3, <1>6, <1>9, <2>1, <2>2 DEF DiskInv, EffectInv, Begun, Owes, Active, Unsettled
  <2> QED
    BY <1>4, <2>3, <2>4, CallStep
<1>10. CASE Waiting(c, w.tag) /\ w.tag = "reconcile"
  <2>1. /\ recon[c] = "writing" /\ UNCHANGED <<pc, mem, auth>>
        /\ recon'[c] = "none" \/ (recon'[c] = "written" /\ ok)
    <3>1. recon[c] = "writing" /\ UNCHANGED <<pc, mem, auth>>
      BY <1>10, <1>a DEF Answer, Waiting, WriteTags
    <3>2. CASE ok = TRUE
      <4>1. Answer(c, w.tag, w.rec, TRUE)
        BY <1>a, <3>2
      <4>2. recon' = [recon EXCEPT ![c] = "written"]
        BY <1>10, <4>1 DEF Answer
      <4> QED
        BY <3>1, <3>2, <4>2 DEF TypeOK
    <3>3. CASE ok = FALSE
      <4>1. Answer(c, w.tag, w.rec, FALSE)
        BY <1>a, <3>3
      <4>2. recon' = [recon EXCEPT ![c] = "none"]
        BY <1>10, <4>1 DEF Answer
      <4> QED
        BY <3>1, <4>2 DEF TypeOK
    <3> QED
      BY <3>2, <3>3
  <2>2. QueueInv(c)'
    BY <1>1, <1>2, <2>1, QueueShifts DEF Begun
  <2>3. DiskInv(c)' /\ EffectInv(c)'
    BY <1>2, <1>3, <1>6, <1>10, <2>1 DEF DiskInv, EffectInv, Begun, Owes, Active
  <2> QED
    BY <1>4, <2>2, <2>3, CallStep
<1>11. CASE Waiting(c, w.tag) /\ w.tag = "recover"
  <2>1. /\ refresh.cur = c /\ UNCHANGED <<pc, auth, recon>>
        /\ (mem' = mem /\ ~ok) \/ (mem' = [mem EXCEPT ![c] = w.rec] /\ ok)
    <3>1. refresh.cur = c /\ UNCHANGED <<pc, auth, recon>>
      BY <1>11, <1>a DEF Answer, Waiting, WriteTags
    <3>2. CASE ok = TRUE
      <4>1. Answer(c, w.tag, w.rec, TRUE)
        BY <1>a, <3>2
      <4> QED
        BY <1>11, <3>1, <3>2, <4>1 DEF Answer
    <3>3. CASE ok = FALSE
      <4>1. Answer(c, w.tag, w.rec, FALSE)
        BY <1>a, <3>3
      <4>2. mem' = mem
        BY <1>11, <4>1 DEF Answer
      <4> QED
        BY <3>1, <3>3, <4>2
    <3> QED
      BY <3>1, <3>2, <3>3
  <2>2. pc[c] = "lost" /\ c \in hist
    BY <1>5, <2>1, CoreAssumption DEF EpochInv
  <2>3. mem'[c].gate = mem[c].gate /\ (ok => mem'[c] = disk[c])
    BY <1>2, <1>3, <2>1, <2>2 DEF WriteInv, TypeOK, w
  <2>4. QueueInv(c)'
    BY <1>1, <1>2, <2>1, <2>3, QueueShifts DEF Begun
  <2>5. DiskInv(c)' /\ EffectInv(c)'
    BY <1>2, <2>1, <2>2, <2>3 DEF DiskInv, EffectInv, Begun, Owes, Active, Unsettled, WriteTags
  <2> QED
    BY <1>4, <2>4, <2>5, CallStep
<1> QED
  BY <1>1, <1>7, <1>8, <1>9, <1>10, <1>11 DEF Tags

\* A finished write.
LEMMA FinishCall ==
  ASSUME IInv, CallInv, NEW c \in Calls, NEW ok \in BOOLEAN, queue[c] # <<>>, Finish(c, ok),
         UNCHANGED disk, ok => queue[c][1].renamed
  PROVE  CallInv'
<1>1. /\ queue' = [queue EXCEPT ![c] = Tail(queue[c])]
      /\ Answer(c, Head(queue[c]).tag, Head(queue[c]).rec, ok)
      /\ UNCHANGED <<staged, started, hist, initialized, sent, live>>
  BY DEF Finish
<1>2. Head(queue[c]) = queue[c][1] /\ 1 \in 1..Len(queue[c])
  <2>1. queue[c] \in Seq(DurableWrite)
    BY DEF IInv, TypeOK
  <2> QED
    BY <2>1
<1> QED
  BY <1>1, <1>2, AnswerCall

\* Steps of the store on one call.
LEMMA StoreCall == ASSUME IInv, CallInv, NEW c \in Calls, Store(c) PROVE CallInv'
<1>1. CASE WriteSynced(c)
  BY <1>1, FinishCall DEF WriteSynced, AtStore
<1>2. CASE WriteRefused(c)
  BY <1>2, FinishCall DEF WriteRefused, AtStore
<1>3. CASE WriteFails(c)
  <2>1. queue[c] # <<>> /\ UNCHANGED disk
    BY <1>3 DEF WriteFails, AtStore
  <2>2. \/ /\ queue' = [queue EXCEPT ![c][1].attempt = 2]
           /\ UNCHANGED <<handlerVars, sharedVars, startVars, sent, live, crashes>>
        \/ Finish(c, FALSE)
    BY <1>3, Zenon DEF WriteFails
  <2> QED
    BY <2>1, <2>2, 2 \in 0..2, AttemptCall, FinishCall
<1>4. CASE WriteStarts(c)
  <2>1. queue[c] # <<>> /\ UNCHANGED disk
    BY <1>4 DEF WriteStarts
  <2>2. \/ /\ queue' = [queue EXCEPT ![c][1].attempt = 1]
           /\ UNCHANGED <<handlerVars, sharedVars, startVars, worldVars>>
        \/ Finish(c, FALSE)
    BY <1>4, Zenon DEF WriteStarts
  <2> QED
    BY <2>1, <2>2, 1 \in 0..2, AttemptCall, FinishCall
<1>5. CASE DurableTimeout(c)
  <2>1. PICK i \in 1..Len(queue[c]) : Answer(c, queue[c][i].tag, queue[c][i].rec, FALSE)
    BY <1>5 DEF DurableTimeout
  <2>2. UNCHANGED <<staged, started, storeVars, hist, initialized, worldVars>>
    BY <1>5 DEF DurableTimeout
  <2> QED
    BY <2>1, <2>2, AnswerCall
<1>6. CASE WriteLands(c)
  BY <1>6, WriteLandsCall
<1> QED
  BY <1>1, <1>2, <1>3, <1>4, <1>5, <1>6 DEF Store

-----------------------------------------------------------------------------
(* Steps of the host. *)

\* What recovery writes is settled, and the gate is as it was.
LEMMA RestoredIsSettled ==
  ASSUME NEW r \in StoredRecord
  PROVE  ~NeedsRecovery(Restored(r)) /\ Restored(r).gate = r.gate
<1> DEFINE s == IF IsTerminal(r) THEN r.state ELSE "interrupted-unknown"
<1>1. r \in [state : OperationStates \cup {"absent"}, cleanup : CleanupStates, gate : SendGates]
  BY DEF Record, StoredRecord, NoRecord, CleanupStates, SendGates
<1>2. Restored(r) = [r EXCEPT !.state = s, !.cleanup = "complete"]
  BY DEF Restored
<1>3. \A t : LET q == [r EXCEPT !.state = t, !.cleanup = "complete"]
             IN  q.state = t /\ q.cleanup = "complete" /\ q.gate = r.gate
  BY <1>1
<1>4. s \in TerminalStates
  BY DEF IsTerminal, TerminalStates
<1> QED
  BY <1>2, <1>3, <1>4 DEF NeedsRecovery, IsTerminal

\* Recovery hands the settled record of a dead operation to the store.
LEMMA RefreshWritesCall ==
  ASSUME IInv, CallInv, RecoveryInv, NEW c \in Calls, RefreshWrites(c) PROVE CallInv'
<1> USE DEF IInv
<1> DEFINE rec == Restored(mem[c])
<1>1. /\ c \in refresh.todo /\ refresh.on /\ ReceiptFor(c)
      /\ UNCHANGED <<handlerVars, sharedVars, disk, initialized, serving, hist, evidence, heldPending, worldVars>>
      /\ Enqueue(c, "recover", rec) \/ UNCHANGED queue
  BY DEF RefreshWrites
<1>2. /\ rec \in Record /\ ~NeedsRecovery(rec) /\ rec.gate = mem[c].gate
  BY RestoredType, RestoredIsSettled DEF TypeOK
<1> HIDE DEF rec
<1>3. c \in hist /\ initialized /\ pc[c] = "lost" /\ QueueInv(c) /\ DiskInv(c) /\ EffectInv(c)
  BY <1>1 DEF EpochInv, RecoveryInv, CallInv
<1>4. ~live[c]
  BY <1>1, <1>3 DEF ReceiptFor, DiskInv, EffectInv
<1>5. CASE Enqueue(c, "recover", rec)
  <2>1. "recover" \in Tags /\ TypeOK
    BY DEF Tags
  <2>0. QueueGrew(c, "recover", rec)
    BY <1>2, <1>5, <2>1, QueueGrows
  <2>2. /\ Len(queue'[c]) = Len(queue[c]) + 1 /\ Len(queue[c]) \in Nat
        /\ \A i \in 1..Len(queue[c]) : queue'[c][i] = queue[c][i]
        /\ queue'[c][Len(queue'[c])].tag = "recover" /\ queue'[c][Len(queue'[c])].rec = rec
        /\ queue'[c][Len(queue'[c])].renamed = FALSE
        /\ \A d \in Calls \ {c} : queue'[d] = queue[d]
    BY <2>0, Zenon DEF QueueGrew
  <2>3. ASSUME NEW i \in 1..Len(queue'[c]) PROVE WriteInv(c, i)'
    <3>1. CASE i = Len(queue'[c])
      BY <1>1, <1>2, <1>3, <1>4, <2>2, <3>1 DEF WriteInv, BeforeEnd
    <3>2. CASE i # Len(queue'[c])
      <4>1. i \in 1..Len(queue[c])
        BY <2>2, <3>2
      <4>2. WriteInv(c, i) /\ queue'[c][i] = queue[c][i]
        BY <1>3, <2>2, <4>1 DEF QueueInv
      <4> QED
        BY <1>1, <1>3, <4>2 DEF WriteInv
    <3> QED
      BY <3>1, <3>2
  <2>4. QueueInv(c)' /\ DiskInv(c)' /\ EffectInv(c)'
    BY <1>1, <1>3, <2>3 DEF QueueInv, DiskInv, EffectInv, Begun, Owes, Active
  <2>5. \A d \in Calls \ {c} : Same(d)
    BY <1>1, <2>2 DEF Same
  <2> QED
    BY <1>1, <2>4, <2>5, CallStep
<1>6. CASE UNCHANGED queue
  BY <1>1, <1>6, HostCall
<1> QED
  BY <1>1, <1>5, <1>6

\* Memory and writes on their way are gone; the journal and the helper stay.
LEMMA CrashCall == ASSUME IInv, CallInv, Crash PROVE CallInv'
<1> SUFFICES ASSUME NEW c \in Calls PROVE QueueInv(c)' /\ DiskInv(c)' /\ EffectInv(c)'
  BY DEF CallInv
<1>1. /\ DiskInv(c) /\ EffectInv(c) /\ disk[c] \in StoredRecord
  BY DEF CallInv, IInv, TypeOK
<1>2. /\ pc'[c] = (IF pc[c] = "idle" THEN "idle" ELSE "lost") /\ mem'[c] = NoRecord
      /\ started'[c] = FALSE /\ auth'[c] = "none" /\ recon'[c] = "none" /\ queue'[c] = <<>>
      /\ initialized' = FALSE /\ (c \in hist' <=> disk[c] # NoRecord)
      /\ UNCHANGED <<disk, sent, live>>
  BY DEF Crash
<1>3. QueueInv(c)'
  <2>1. Len(queue'[c]) = 0
    BY <1>2
  <2> QED
    BY <1>2, <2>1 DEF QueueInv
<1>4. DiskInv(c)'
  BY <1>1, <1>2 DEF DiskInv, BeforeEnd
<1>5. EffectInv(c)'
  <2>1. sent[c] => pc[c] # "idle"
    BY <1>1 DEF EffectInv, Begun, Unsettled, WriteTags
  <2> QED
    BY <1>1, <1>2, <2>1 DEF EffectInv
<1> QED
  BY <1>3, <1>4, <1>5

\* What the journal says becomes what memory says.
LEMMA InitializeCall == ASSUME IInv, CallInv, RecoveryInv, Initialize PROVE CallInv'
<1> SUFFICES ASSUME NEW c \in Calls PROVE QueueInv(c)' /\ DiskInv(c)' /\ EffectInv(c)'
  BY DEF CallInv
<1>1. DiskInv(c) /\ EffectInv(c) /\ queue[c] = <<>> /\ ~Begun(c)
  BY DEF CallInv, Initialize, RecoveryInv, IInv, EpochInv, Begun
<1>2. /\ c \in hist => mem'[c] = disk[c]
      /\ UNCHANGED <<pc, staged, started, auth, recon, queue, disk, sent, live, hist>>
  BY DEF Initialize
<1>3. QueueInv(c)'
  <2>1. Len(queue'[c]) = 0
    BY <1>1, <1>2
  <2> QED
    BY <1>1, <1>2, <2>1 DEF QueueInv
<1>4. DiskInv(c)' /\ EffectInv(c)'
  BY <1>1, <1>2 DEF DiskInv, EffectInv, Begun, Owes, Active, Unsettled, WriteTags
<1> QED
  BY <1>3, <1>4

\* Every step preserves what is said of the calls.
LEMMA CallsStep == ASSUME IInv, CallInv, RecoveryInv, Next PROVE CallInv'
<1>1. ASSUME NEW c \in Calls, Handler(c) PROVE CallInv'
  BY <1>1, SubmitCall, AdmitCall, TargetStaleCall, CheckCall, ReadyCall, VerifyAcceptsCall,
     VerifyRejectsCall, CommitCall, GraceExpiresCall, CatchUnsentCall, CatchUnknownCall,
     SettleCall, AbortCall, CancelCall, ReconcileCall, ReconcileCommitCall DEF Handler
<1>2. ASSUME NEW c \in Calls, Adapter(c) PROVE CallInv'
  BY <1>2, RequestAuthorizationCall, ViewRefusedCall, NativeSendCall, NativeStopsCall,
     AdapterReturnsCall, AdapterThrowsCall DEF Adapter
<1>3. ASSUME NEW c \in Calls, RefreshKeeps(c) PROVE CallInv'
  BY <1>3, HostCall DEF RefreshKeeps
<1>4. CASE Seal \/ Unseal \/ Drain \/ DrainEnds \/ RefreshStart \/ RefreshEnds
  BY <1>4, HostCall DEF Seal, Unseal, Drain, DrainEnds, RefreshStart, RefreshEnds
<1> QED
  BY <1>1, <1>2, <1>3, <1>4, StoreCall, CrashCall, InitializeCall, RefreshWritesCall DEF Next, Host

-----------------------------------------------------------------------------
(* What every step after admission has in common. *)

\* No admission is between its microtasks, nobody enters, and a handler moves
\* inside its operation or settles.
Moves ==
  /\ Quiet
  /\ \A d \in Calls : \/ pc'[d] = pc[d]
                      \/ pc[d] \in Unsettled /\ pc'[d] \in Unsettled \cup {"settled"}
  /\ UNCHANGED <<dedup, hist, initialized>>

\* A step of a handler whose operation exists.
LaterStep(c) ==
  \/ Check(c) \/ Ready(c)
  \/ VerifyAccepts(c) \/ VerifyRejects(c) \/ Commit(c) \/ GraceExpires(c)
  \/ CatchUnsent(c) \/ CatchUnknown(c) \/ Settle(c)
  \/ Abort(c) \/ Cancel(c) \/ Reconcile(c) \/ ReconcileCommit(c)

\* What a handler does after admission touches neither the effects nor the epoch.
LEMMA LaterMoves ==
  ASSUME IInv, NEW c \in Calls, LaterStep(c)
  PROVE  /\ Moves /\ UNCHANGED <<disk, startVars, poisoned, drain, sent, live, faults, crashes>> /\ (sealed => sealed')
         /\ pc[c] \in Unsettled \cup {"settled"}
         /\ \A d \in Calls \ {c} : pc'[d] = pc[d]
<1> USE DEF IInv, Moves
<1>1. CASE Check(c)
  BY <1>1, PersistOrEffect DEF TypeOK, Check, Goto, WriteTags, Unsettled
<1>2. CASE Ready(c) \/ VerifyRejects(c) \/ GraceExpires(c)
  BY <1>2 DEF TypeOK, Ready, VerifyRejects, GraceExpires, Guarded, Goto, WriteTags, Unsettled
<1>3. CASE VerifyAccepts(c)
  BY <1>3, PersistOrEffect DEF TypeOK, VerifyAccepts, Goto, WriteTags, Unsettled
<1>4. CASE Commit(c) \/ Settle(c)
  BY <1>4 DEF TypeOK, Commit, Settle, Goto, WriteTags, Unsettled
<1>5. CASE CatchUnsent(c)
  <2>1. PICK rec : PersistOr(c, "releasing", rec, "release")
    BY <1>5 DEF CatchUnsent
  <2>2. /\ Quiet /\ pc[c] = "failing" /\ sealed' = (sealed \/ poisoned)
        /\ UNCHANGED <<dedup, disk, startVars, poisoned, drain, sent, live, faults, crashes>>
    BY <1>5 DEF CatchUnsent
  <2> QED
    <3>1. pc' = [pc EXCEPT ![c] = "releasing"] \/ pc' = [pc EXCEPT ![c] = "release"]
      BY <2>1, PersistOrEffect DEF WriteTags
    <3> QED
      BY <2>2, <3>1 DEF TypeOK, WriteTags, Unsettled
<1>6. CASE CatchUnknown(c)
  <2>1. PICK rec : PersistOr(c, "quarantining", rec, "settle")
    BY <1>6 DEF CatchUnknown
  <2>2. /\ Quiet /\ pc[c] = "failing" /\ sealed' = (sealed \/ poisoned)
        /\ UNCHANGED <<dedup, disk, startVars, poisoned, drain, sent, live, faults, crashes>>
    BY <1>6 DEF CatchUnknown
  <2> QED
    <3>1. pc' = [pc EXCEPT ![c] = "quarantining"] \/ pc' = [pc EXCEPT ![c] = "settle"]
      BY <2>1, PersistOrEffect DEF WriteTags
    <3> QED
      BY <2>2, <3>1 DEF TypeOK, WriteTags, Unsettled
<1>7. CASE Abort(c) \/ Cancel(c)
  BY <1>7 DEF Abort, Cancel, Active
<1>8. CASE Reconcile(c) \/ ReconcileCommit(c)
  BY <1>8 DEF Reconcile, ReconcileCommit, HandlerInv
<1> QED
  BY <1>1, <1>2, <1>3, <1>4, <1>5, <1>6, <1>7, <1>8 DEF LaterStep

\* The adapter and the native helper leave leases and recovery alone.
LEMMA AdapterMoves ==
  ASSUME IInv, NEW c \in Calls, Adapter(c)
  PROVE  /\ Moves /\ UNCHANGED <<slot, disk, startVars, poisoned, sealed, drain>>
         /\ \A d \in Calls : pc'[d] # pc[d] => pc[d] = "running" /\ pc'[d] \in {"verifying", "failing"}
         /\ queue' # queue => pc[c] = "running"
<1> USE DEF IInv, TypeOK, Moves
<1>1. CASE RequestAuthorization(c) \/ ViewRefused(c)
  BY <1>1 DEF RequestAuthorization, ViewRefused
<1>2. CASE NativeSend(c) \/ NativeStops(c)
  BY <1>2 DEF NativeSend, NativeStops
<1>3. CASE AdapterReturns(c) \/ AdapterThrows(c)
  BY <1>3 DEF AdapterReturns, AdapterThrows, Goto, WriteTags, Unsettled
<1> QED
  BY <1>1, <1>2, <1>3 DEF Adapter

\* Who is answered.
LEMMA AnswerMoves ==
  ASSUME IInv, NEW c \in Calls, NEW tag \in Tags, NEW rec, NEW ok \in BOOLEAN, Answer(c, tag, rec, ok)
  PROVE  /\ \A d \in Calls : pc'[d] = pc[d] \/ {pc[d], pc'[d]} \subseteq Unsettled
         /\ \A d \in Calls : pc'[d] \in Ended <=> pc[d] \in Ended
<1> USE DEF IInv, TypeOK, Ended
<1>1. CASE Waiting(c, tag) /\ tag \in WriteTags
  <2>1. pc[c] = tag /\ pc' = [pc EXCEPT ![c] = AfterWrite(tag, ok)]
    BY <1>1 DEF Answer, Waiting, WriteTags
  <2>2. AfterWrite(tag, ok) \in Unsettled /\ tag \in Unsettled
    BY <1>1, AfterWriteType, PCFacts
  <2>3. AfterWrite(tag, ok) \in Ended <=> tag \in Ended
    BY <1>1 DEF AfterWrite, WriteTags
  <2> QED
    BY <2>1, <2>2, <2>3
<1>2. CASE ~(Waiting(c, tag) /\ tag \in WriteTags)
  BY <1>2 DEF Answer
<1> QED
  BY <1>1, <1>2

\* The store leaves leases, effects and the epoch alone.
LEMMA StoreMoves ==
  ASSUME IInv, NEW c \in Calls, Store(c)
  PROVE  /\ Moves /\ UNCHANGED <<slot, drain, hist, evidence, heldPending, sent, live, crashes>>
         /\ \A d \in Calls : pc'[d] \in Ended <=> pc[d] \in Ended
         /\ queue[c] # <<>> /\ (sealed => sealed')
<1> USE DEF IInv, Moves
<1>1. ASSUME NEW ok \in BOOLEAN, queue[c] # <<>>, Quiet, Finish(c, ok)
      PROVE  /\ Moves /\ UNCHANGED <<slot, drain, hist, evidence, heldPending, sent, live, crashes>>
             /\ \A d \in Calls : pc'[d] \in Ended <=> pc[d] \in Ended
             /\ queue[c] # <<>> /\ (sealed => sealed')
  <2>1. Answer(c, Head(queue[c]).tag, Head(queue[c]).rec, ok)
    BY <1>1 DEF Finish
  <2>2. Head(queue[c]).tag \in Tags
    BY <1>1, HeadWrite
  <2>3. /\ \A d \in Calls : pc'[d] = pc[d] \/ {pc[d], pc'[d]} \subseteq Unsettled
        /\ \A d \in Calls : pc'[d] \in Ended <=> pc[d] \in Ended
    BY <2>1, <2>2, AnswerMoves
  <2>4. /\ UNCHANGED <<dedup, initialized, slot, drain, hist, evidence, heldPending, sent, live, crashes>>
        /\ sealed => sealed'
    BY <1>1 DEF Finish
  <2> QED
    BY <1>1, <2>3, <2>4
<1>2. CASE WriteLands(c)
  BY <1>2 DEF WriteLands, AtStore
<1>3. CASE WriteSynced(c) \/ WriteRefused(c)
  BY <1>1, <1>3 DEF WriteSynced, WriteRefused, AtStore
<1>4. CASE WriteFails(c)
  <2>1. queue[c] # <<>> /\ Quiet
    BY <1>4 DEF WriteFails, AtStore
  <2>2. UNCHANGED <<handlerVars, sharedVars, startVars, sent, live, crashes>> \/ Finish(c, FALSE)
    BY <1>4, Zenon DEF WriteFails
  <2>3. CASE UNCHANGED <<handlerVars, sharedVars, startVars, sent, live, crashes>>
    BY <2>1, <2>3
  <2>4. CASE Finish(c, FALSE)
    BY <1>1, <2>1, <2>4
  <2> QED
    BY <2>2, <2>3, <2>4
<1>5. CASE WriteStarts(c)
  <2>1. queue[c] # <<>> /\ Quiet
    BY <1>5 DEF WriteStarts
  <2>2. UNCHANGED <<handlerVars, sharedVars, startVars, worldVars>> \/ Finish(c, FALSE)
    BY <1>5, Zenon DEF WriteStarts
  <2>3. CASE UNCHANGED <<handlerVars, sharedVars, startVars, worldVars>>
    BY <2>1, <2>3
  <2>4. CASE Finish(c, FALSE)
    BY <1>1, <2>1, <2>4
  <2> QED
    BY <2>2, <2>3, <2>4
<1>6. CASE DurableTimeout(c)
  <2>1. PICK i \in 1..Len(queue[c]) : Answer(c, queue[c][i].tag, queue[c][i].rec, FALSE)
    BY <1>6 DEF DurableTimeout
  <2>2. /\ Quiet /\ sealed' = TRUE
        /\ UNCHANGED <<dedup, initialized, slot, drain, hist, evidence, heldPending, sent, live, crashes>>
    BY <1>6 DEF DurableTimeout
  <2>3. queue[c] \in Seq(DurableWrite)
    BY DEF TypeOK
  <2>4. queue[c][i] \in DurableWrite /\ queue[c] # <<>>
    BY <2>3
  <2>5. queue[c][i].tag \in Tags
    BY <2>4 DEF DurableWrite
  <2>6. /\ \A d \in Calls : pc'[d] = pc[d] \/ {pc[d], pc'[d]} \subseteq Unsettled
        /\ \A d \in Calls : pc'[d] \in Ended <=> pc[d] \in Ended
    BY <2>1, <2>5, AnswerMoves
  <2> QED
    BY <2>2, <2>4, <2>6
<1> QED
  BY <1>2, <1>3, <1>4, <1>5, <1>6 DEF Store

\* A step of the host while the process lives, after recovery has read the journal.
HostStep ==
  \/ Seal \/ Unseal \/ Drain \/ DrainEnds \/ RefreshStart \/ RefreshEnds
  \/ \E c \in Calls : RefreshKeeps(c) \/ RefreshWrites(c)

\* The host, too, moves no handler and no lease.
LEMMA HostMoves ==
  ASSUME IInv, HostStep
  PROVE  Moves /\ UNCHANGED <<pc, slot, disk, poisoned>>
<1>1. CASE Seal \/ Unseal \/ Drain \/ DrainEnds
  BY <1>1 DEF Seal, Unseal, Drain, DrainEnds, Moves
<1>2. CASE RefreshStart \/ RefreshEnds
  BY <1>2 DEF RefreshStart, RefreshEnds, Moves
<1>3. CASE \E c \in Calls : RefreshKeeps(c) \/ RefreshWrites(c)
  BY <1>3 DEF RefreshKeeps, RefreshWrites, Moves
<1> QED
  BY <1>1, <1>2, <1>3 DEF HostStep

\* The steps of the system, grouped by what they can disturb.
LEMMA NextCases ==
  Next => \/ \E c \in Calls : Submit(c) \/ Admit(c) \/ TargetStale(c)
          \/ \E c \in Calls : LaterStep(c) \/ Adapter(c) \/ Store(c)
          \/ HostStep \/ Crash \/ Initialize
<1>1. \A c \in Calls : Handler(c) => Submit(c) \/ Admit(c) \/ TargetStale(c) \/ LaterStep(c)
  BY DEF Handler, LaterStep
<1>2. Host => HostStep \/ Crash \/ Initialize
  BY DEF Host, HostStep
<1> QED
  BY <1>1, <1>2 DEF Next

-----------------------------------------------------------------------------
(* The leases. *)

\* No slot moves, and no operation ends.
LEMMA SlotsKept ==
  ASSUME SlotInv, slot' = slot, TypeOK, \A d \in Calls : pc'[d] \in Ended <=> pc[d] \in Ended
  PROVE  SlotInv'
<1> SUFFICES ASSUME NEW r \in Resources
             PROVE  /\ slot[r].op = NoCall => slot[r] = FreeSlot
                    /\ slot[r].op # NoCall =>
                         slot[r].state = IF pc'[slot[r].op] \in Ended THEN "quarantined" ELSE "active"
  BY DEF SlotInv
<1>1. slot[r].op \in Calls \cup {NoCall}
  BY DEF TypeOK, Slot
<1> QED
  BY <1>1 DEF SlotInv

\* The cleanup of c, with its outcome; nobody else ends.
LEMMA SlotsChanged ==
  ASSUME SlotInv, TypeOK, NEW c \in Calls, NEW k, slot' = SlotsAfter(c, k), pc'[c] \in Ended,
         \A d \in Calls \ {c} : pc'[d] = pc[d]
  PROVE  SlotInv'
<1> SUFFICES ASSUME NEW r \in Resources
             PROVE  /\ slot'[r].op = NoCall => slot'[r] = FreeSlot
                    /\ slot'[r].op # NoCall =>
                         slot'[r].state = IF pc'[slot'[r].op] \in Ended THEN "quarantined" ELSE "active"
  BY DEF SlotInv
<1>1. slot[r].op \in Calls \cup {NoCall}
  BY DEF TypeOK, Slot
<1>2. slot'[r] = IF slot[r].op # c THEN slot[r]
                 ELSE IF k = "complete" THEN FreeSlot ELSE Held(c, "quarantined")
  BY DEF SlotsAfter
<1>3. FreeSlot.op = NoCall /\ Held(c, "quarantined").op = c /\ Held(c, "quarantined").state = "quarantined"
  BY DEF FreeSlot, Held
<1>4. CASE slot[r].op = c
  BY <1>2, <1>3, <1>4, CoreAssumption
<1>5. CASE slot[r].op # c
  BY <1>1, <1>2, <1>5 DEF SlotInv
<1> QED
  BY <1>4, <1>5

\* Every step preserves it.
LEMMA SlotsStep == ASSUME IInv, SlotInv, Next PROVE SlotInv'
<1> USE DEF IInv
<1>1. ASSUME NEW c \in Calls, Submit(c) \/ TargetStale(c) PROVE SlotInv'
  <2>1. slot' = slot /\ \A d \in Calls : pc'[d] \in Ended <=> pc[d] \in Ended
    BY <1>1 DEF Submit, TargetStale, Goto, TypeOK, Ended
  <2> QED
    BY <2>1, SlotsKept
<1>2. ASSUME NEW c \in Calls, Admit(c) PROVE SlotInv'
  <2>1. CASE ~AllFree(c)
    <3>1. slot' = slot /\ \A d \in Calls : pc'[d] \in Ended <=> pc[d] \in Ended
      BY <1>2, <2>1 DEF Admit, Goto, TypeOK, Ended
    <3> QED
      BY <3>1, SlotsKept
  <2>2. CASE AllFree(c)
    <3>1. /\ slot' = [r \in Resources |-> IF r \in Needs[c] THEN Held(c, "active") ELSE slot[r]]
          /\ PersistOr(c, "registered", Registered, "failing") /\ pc[c] = "resolving"
      BY <1>2, <2>2 DEF Admit
    <3>2. pc'[c] \notin Ended /\ \A d \in Calls \ {c} : pc'[d] = pc[d]
      <4>1. pc' = [pc EXCEPT ![c] = "registered"] \/ pc' = [pc EXCEPT ![c] = "failing"]
        BY <3>1, PersistOrEffect DEF WriteTags
      <4> QED
        BY <4>1 DEF TypeOK, Ended
    <3> SUFFICES ASSUME NEW r \in Resources
                 PROVE  /\ slot'[r].op = NoCall => slot'[r] = FreeSlot
                        /\ slot'[r].op # NoCall =>
                             slot'[r].state = IF pc'[slot'[r].op] \in Ended THEN "quarantined" ELSE "active"
      BY DEF SlotInv
    <3>3. CASE r \in Needs[c]
      BY <3>1, <3>2, <3>3, CoreAssumption DEF Held
    <3>4. CASE r \notin Needs[c]
      <4>1. slot'[r] = slot[r] /\ slot[r].op \in Calls \cup {NoCall}
        BY <3>1, <3>4 DEF TypeOK, Slot
      <4>2. slot[r].op # c
        BY <3>1, LeasesAre DEF Owes, Active, Unsettled, WriteTags
      <4> QED
        BY <3>2, <4>1, <4>2 DEF SlotInv
    <3> QED
      BY <3>3, <3>4
  <2> QED
    BY <2>1, <2>2
<1>3. ASSUME NEW c \in Calls, LaterStep(c) PROVE SlotInv'
  <2>1. \A d \in Calls \ {c} : pc'[d] = pc[d]
    BY <1>3, LaterMoves
  <2>2. CASE Check(c) \/ VerifyAccepts(c)
    <3>1. slot' = slot /\ pc[c] \notin Ended /\ pc'[c] \notin Ended
      BY <2>2, PersistOrEffect DEF Check, VerifyAccepts, Goto, TypeOK, Ended, WriteTags
    <3> QED
      BY <2>1, <3>1, SlotsKept
  <2>3. CASE Ready(c) \/ VerifyRejects(c) \/ GraceExpires(c) \/ Abort(c) \/ Cancel(c) \/ Reconcile(c)
    <3>1. slot' = slot /\ (pc'[c] \in Ended <=> pc[c] \in Ended)
      BY <2>3 DEF Ready, VerifyRejects, GraceExpires, Guarded, Abort, Cancel, Reconcile, Goto, TypeOK, Ended
    <3> QED
      BY <2>1, <3>1, SlotsKept
  <2>4. CASE CatchUnsent(c)
    <3>1. PICK rec : PersistOr(c, "releasing", rec, "release")
      BY <2>4 DEF CatchUnsent
    <3>2. slot' = slot /\ pc[c] = "failing"
      BY <2>4 DEF CatchUnsent
    <3>3. pc'[c] \notin Ended /\ pc[c] \notin Ended
      <4>1. pc' = [pc EXCEPT ![c] = "releasing"] \/ pc' = [pc EXCEPT ![c] = "release"]
        BY <3>1, PersistOrEffect DEF WriteTags
      <4> QED
        BY <3>2, <4>1 DEF TypeOK, Ended
    <3> QED
      BY <2>1, <3>2, <3>3, SlotsKept
  <2>5. CASE CatchUnknown(c)
    <3>1. PICK rec : PersistOr(c, "quarantining", rec, "settle")
      BY <2>5 DEF CatchUnknown
    <3>2. slot' = SlotsAfter(c, "unknown")
      BY <2>5 DEF CatchUnknown
    <3>3. pc'[c] \in Ended
      BY <3>1, PersistOrEffect DEF TypeOK, Ended, WriteTags
    <3> QED
      BY <2>1, <3>2, <3>3, SlotsChanged
  <2>6. CASE Commit(c)
    <3>1. \/ slot' = slot /\ pc[c] = "commit" /\ pc'[c] = "failing"
          \/ slot' = SlotsAfter(c, staged[c].cleanup) /\ pc'[c] = "settled"
      BY <2>6 DEF Commit, Goto, TypeOK
    <3> QED
      BY <2>1, <3>1, SlotsKept, SlotsChanged DEF Ended
  <2>7. CASE Settle(c)
    <3>1. \/ slot' = slot /\ pc[c] = "settle" /\ pc'[c] = "settled"
          \/ slot' = SlotsAfter(c, "complete") /\ pc'[c] = "settled"
      BY <2>7 DEF Settle, Goto, TypeOK
    <3> QED
      BY <2>1, <3>1, SlotsKept, SlotsChanged DEF Ended
  <2>8. CASE ReconcileCommit(c)
    <3>1. slot' = SlotsAfter(c, "complete") /\ pc'[c] = "settled"
      BY <2>8 DEF ReconcileCommit, HandlerInv
    <3> QED
      BY <2>1, <3>1, SlotsChanged DEF Ended
  <2> QED
    BY <1>3, <2>2, <2>3, <2>4, <2>5, <2>6, <2>7, <2>8 DEF LaterStep
<1>4. ASSUME NEW c \in Calls, Adapter(c) PROVE SlotInv'
  BY <1>4, AdapterMoves, SlotsKept DEF Ended
<1>5. ASSUME NEW c \in Calls, Store(c) PROVE SlotInv'
  BY <1>5, StoreMoves, SlotsKept
<1>6. CASE HostStep
  BY <1>6, HostMoves, SlotsKept
<1>7. CASE Initialize
  BY <1>7, SlotsKept DEF Initialize
<1>8. CASE Crash
  BY <1>8 DEF Crash, SlotInv, FreeSlot
<1> QED
  BY <1>1, <1>2, <1>3, <1>4, <1>5, <1>6, <1>7, <1>8, NextCases

-----------------------------------------------------------------------------
(* Startup recovery. *)

\* A step that leaves journal and recovery alone and opens nothing.
LEMMA RecoveryKept ==
  ASSUME RecoveryInv, UNCHANGED <<disk, startVars, poisoned>>, sealed => sealed', Opened' => Opened,
         queue' = queue \/ initialized
  PROVE  RecoveryInv'
  BY DEF RecoveryInv

\* Moves open nothing by themselves.
LEMMA MovesOpenNothing ==
  ASSUME Moves, sealed => sealed' PROVE Opened' => Opened
  BY DEF Moves, Opened, Begun

\* A good answer about a record of recovery means that the record on disk is settled.
LEMMA AnswerRecovery ==
  ASSUME IInv, CallInv, NEW c \in Calls, NEW i \in 1..Len(queue[c]), NEW ok \in BOOLEAN,
         Answer(c, queue[c][i].tag, queue[c][i].rec, ok), ok => queue[c][i].renamed
  PROVE  /\ refresh'.on => refresh.on
         /\ \A d \in hist : NeedsRecovery(disk[d]) /\ refresh'.on /\ d \in refresh.todo \cup refresh.left
                              => d \in refresh'.todo \cup refresh'.left
<1> DEFINE w == queue[c][i]
<1>1. refresh \in Refresh
  BY DEF IInv, TypeOK
<1>2. WriteInv(c, i)
  BY DEF CallInv, QueueInv
<1>3. CASE ~(Waiting(c, w.tag) /\ w.tag = "recover")
  BY <1>3 DEF Answer
<1>4. CASE Waiting(c, w.tag) /\ w.tag = "recover" /\ ok = TRUE
  <2>1. refresh' = [refresh EXCEPT !.todo = @ \ {c}, !.cur = NoCall]
    BY <1>4 DEF Answer
  <2>2. refresh'.todo = refresh.todo \ {c} /\ refresh'.left = refresh.left /\ refresh'.on = refresh.on
    BY <1>1, <2>1 DEF Refresh
  <2>3. ~NeedsRecovery(disk[c])
    BY <1>2, <1>4 DEF WriteInv
  <2> QED
    BY <2>2, <2>3
<1>5. CASE Waiting(c, w.tag) /\ w.tag = "recover" /\ ok = FALSE
  <2>1. refresh' = NoRefresh
    BY <1>5 DEF Answer
  <2> QED
    BY <2>1 DEF NoRefresh
<1> QED
  BY <1>3, <1>4, <1>5

\* Steps of the store.
LEMMA StoreRecovery ==
  ASSUME IInv, CallInv, RecoveryInv, NEW c \in Calls, Store(c) PROVE RecoveryInv'
<1> USE DEF IInv
<1>1. /\ Moves /\ UNCHANGED <<hist, evidence, initialized>> /\ queue[c] # <<>> /\ (sealed => sealed')
      /\ queue[c] \in Seq(DurableWrite)
  BY StoreMoves DEF Moves, TypeOK
<1>2. initialized /\ (Opened' => Opened)
  BY <1>1, MovesOpenNothing DEF RecoveryInv
<1>3. ASSUME disk' = disk, refresh'.on => refresh.on,
             \A d \in hist : NeedsRecovery(disk[d]) /\ refresh'.on /\ d \in refresh.todo \cup refresh.left
                               => d \in refresh'.todo \cup refresh'.left,
             poisoned' => sealed'
      PROVE  RecoveryInv'
  BY <1>1, <1>2, <1>3 DEF RecoveryInv
<1>4. ASSUME NEW ok \in BOOLEAN, Finish(c, ok), ok => queue[c][1].renamed, disk' = disk
      PROVE  RecoveryInv'
  <2>1. Head(queue[c]) = queue[c][1] /\ 1 \in 1..Len(queue[c])
    BY <1>1
  <2>2. Answer(c, queue[c][1].tag, queue[c][1].rec, ok) /\ UNCHANGED poisoned
    BY <1>4, <2>1 DEF Finish
  <2>3. /\ refresh'.on => refresh.on
        /\ \A d \in hist : NeedsRecovery(disk[d]) /\ refresh'.on /\ d \in refresh.todo \cup refresh.left
                             => d \in refresh'.todo \cup refresh'.left
    BY <1>4, <2>1, <2>2, AnswerRecovery
  <2>4. poisoned' => sealed'
    BY <1>1, <2>2 DEF RecoveryInv
  <2> QED
    BY <1>3, <1>4, <2>3, <2>4
<1>5. CASE WriteSynced(c) \/ WriteRefused(c)
  BY <1>4, <1>5 DEF WriteSynced, WriteRefused
<1>6. CASE WriteFails(c)
  <2>1. UNCHANGED <<handlerVars, sharedVars, startVars, sent, live, crashes>> \/ Finish(c, FALSE)
    BY <1>6, Zenon DEF WriteFails
  <2>2. disk' = disk
    BY <1>6 DEF WriteFails
  <2>3. CASE UNCHANGED <<handlerVars, sharedVars, startVars, sent, live, crashes>>
    BY <1>3, <2>2, <2>3 DEF RecoveryInv
  <2>4. CASE Finish(c, FALSE)
    BY <1>4, <2>2, <2>4
  <2> QED
    BY <2>1, <2>3, <2>4
<1>7. CASE WriteStarts(c)
  <2>1. UNCHANGED <<handlerVars, sharedVars, startVars, worldVars>> \/ Finish(c, FALSE)
    BY <1>7, Zenon DEF WriteStarts
  <2>2. disk' = disk
    BY <1>7 DEF WriteStarts
  <2>3. CASE UNCHANGED <<handlerVars, sharedVars, startVars, worldVars>>
    BY <1>3, <2>2, <2>3 DEF RecoveryInv
  <2>4. CASE Finish(c, FALSE)
    BY <1>4, <2>2, <2>4
  <2> QED
    BY <2>1, <2>3, <2>4
<1>8. CASE DurableTimeout(c)
  <2>1. PICK i \in 1..Len(queue[c]) : Answer(c, queue[c][i].tag, queue[c][i].rec, FALSE)
    BY <1>8 DEF DurableTimeout
  <2>2. disk' = disk /\ sealed' = TRUE
    BY <1>8 DEF DurableTimeout
  <2>3. /\ refresh'.on => refresh.on
        /\ \A d \in hist : NeedsRecovery(disk[d]) /\ refresh'.on /\ d \in refresh.todo \cup refresh.left
                             => d \in refresh'.todo \cup refresh'.left
    BY <2>1, AnswerRecovery
  <2> QED
    BY <1>3, <2>2, <2>3
<1>9. CASE WriteLands(c)
  <2>1. /\ disk' = [disk EXCEPT ![c] = queue[c][1].rec]
        /\ UNCHANGED <<handlerVars, sharedVars, startVars, worldVars>>
    BY <1>9 DEF WriteLands
  <2>2. 1 \in 1..Len(queue[c])
    BY <1>1
  <2>3. c \in hist => ~NeedsRecovery(queue[c][1].rec)
    BY <2>2 DEF CallInv, QueueInv, WriteInv
  <2>4. \A d \in hist : NeedsRecovery(disk'[d]) => NeedsRecovery(disk[d])
    BY <2>1, <2>3 DEF TypeOK
  <2> QED
    BY <1>1, <1>2, <2>1, <2>4 DEF RecoveryInv
<1> QED
  BY <1>5, <1>6, <1>7, <1>8, <1>9 DEF Store

\* Steps of the host.
LEMMA HostRecovery == ASSUME IInv, RecoveryInv, HostStep PROVE RecoveryInv'
<1> USE DEF IInv
<1>1. Moves /\ UNCHANGED <<pc, slot, disk, poisoned, hist, initialized>> /\ refresh \in Refresh
  BY HostMoves DEF Moves, TypeOK
<1>2. CASE Seal \/ Drain \/ DrainEnds
  <2>1. UNCHANGED <<startVars, queue>> /\ (sealed => sealed')
    BY <1>2 DEF Seal, Drain, DrainEnds
  <2> QED
    BY <1>1, <2>1, MovesOpenNothing, RecoveryKept
<1>3. CASE Unseal
  <2>1. evidence = {} /\ ~poisoned /\ initialized /\ UNCHANGED <<startVars, queue>>
    BY <1>3 DEF Unseal, MayUnseal
  <2>2. \A c \in hist : ~NeedsRecovery(disk[c])
    BY <2>1 DEF RecoveryInv
  <2> QED
    BY <1>1, <2>1, <2>2 DEF RecoveryInv
<1>4. CASE RefreshStart
  <2>1. /\ refresh' = [on |-> TRUE, reopen |-> (drain.phase = "none"), todo |-> evidence,
                       left |-> {}, cur |-> NoCall]
        /\ initialized /\ UNCHANGED <<serving, evidence, queue, sealed>>
    BY <1>4 DEF RefreshStart, RecoveryInv
  <2>2. Opened' => Opened
    BY <1>1, <2>1, MovesOpenNothing
  <2> QED
    BY <1>1, <2>1, <2>2 DEF RecoveryInv
<1>5. CASE RefreshEnds
  <2>1. /\ refresh.on /\ refresh.todo = {} /\ evidence' = refresh.left /\ refresh' = NoRefresh
        /\ UNCHANGED queue
        /\ sealed' = IF refresh.reopen /\ MayUnseal(evidence', heldPending') THEN FALSE
                     ELSE sealed \/ evidence' # {} \/ heldPending'
    BY <1>5 DEF RefreshEnds
  <2>2. \A c \in hist : NeedsRecovery(disk[c]) => c \in evidence'
    BY <2>1 DEF RecoveryInv
  <2>3. ~refresh'.on
    BY <2>1 DEF NoRefresh
  <2>4. CASE refresh.reopen /\ MayUnseal(evidence', heldPending')
    <3>1. evidence' = {} /\ ~poisoned
      BY <2>4 DEF MayUnseal
    <3> QED
      BY <1>1, <2>1, <2>2, <2>3, <3>1 DEF RecoveryInv
  <2>5. CASE ~(refresh.reopen /\ MayUnseal(evidence', heldPending'))
    <3>1. sealed => sealed'
      BY <2>1, <2>5 DEF TypeOK
    <3>2. Opened' => Opened
      BY <1>1, <3>1, MovesOpenNothing
    <3> QED
      BY <1>1, <2>1, <2>2, <2>3, <3>1, <3>2 DEF RecoveryInv
  <2> QED
    BY <2>4, <2>5
<1>6. ASSUME NEW c \in Calls, RefreshKeeps(c) PROVE RecoveryInv'
  <2>1. /\ refresh' = [refresh EXCEPT !.todo = @ \ {c}, !.left = @ \cup {c}]
        /\ UNCHANGED <<serving, evidence, queue, sealed>>
    BY <1>6 DEF RefreshKeeps
  <2>2. refresh'.on = refresh.on /\ refresh'.todo \cup refresh'.left = refresh.todo \cup refresh.left \cup {c}
    BY <1>1, <2>1 DEF Refresh
  <2>3. Opened' => Opened
    BY <1>1, <2>1, MovesOpenNothing
  <2> QED
    BY <1>1, <2>1, <2>2, <2>3 DEF RecoveryInv
<1>7. ASSUME NEW c \in Calls, RefreshWrites(c) PROVE RecoveryInv'
  <2>1. /\ refresh.on /\ UNCHANGED <<serving, evidence, sealed>>
        /\ refresh' = [refresh EXCEPT !.cur = c] \/ refresh' = NoRefresh
    BY <1>7 DEF RefreshWrites
  <2>2. ~refresh'.on \/ (refresh'.on = refresh.on /\ refresh'.todo = refresh.todo /\ refresh'.left = refresh.left)
    <3>1. CASE refresh' = NoRefresh
      BY <3>1 DEF NoRefresh
    <3>2. CASE refresh' = [refresh EXCEPT !.cur = c]
      BY <1>1, <3>2 DEF Refresh
    <3> QED
      BY <2>1, <3>1, <3>2
  <2>3. Opened' => Opened
    BY <1>1, <2>1, MovesOpenNothing
  <2> QED
    BY <1>1, <2>1, <2>2, <2>3 DEF RecoveryInv
<1> QED
  BY <1>2, <1>3, <1>4, <1>5, <1>6, <1>7 DEF HostStep

\* Every step preserves it.
LEMMA RecoveryStep == ASSUME IInv, CallInv, RecoveryInv, Next PROVE RecoveryInv'
<1> USE DEF IInv
<1>1. ASSUME NEW c \in Calls, Submit(c) \/ TargetStale(c) PROVE RecoveryInv'
  <2>1. UNCHANGED <<disk, startVars, poisoned, sealed, queue>> /\ \A d \in Calls \ {c} : pc'[d] = pc[d]
    BY <1>1 DEF Submit, TargetStale, Goto, TypeOK
  <2>2. ~Begun(c)' /\ (pc'[c] = "resolving" => initialized /\ ~sealed)
    BY <1>1 DEF Submit, TargetStale, Goto, TypeOK, Begun, Unsettled, WriteTags
  <2>3. Opened' => Opened
    BY <2>1, <2>2 DEF Opened, Begun
  <2> QED
    BY <2>1, <2>3, RecoveryKept
<1>2. ASSUME NEW c \in Calls, Admit(c) PROVE RecoveryInv'
  <2>1. UNCHANGED <<disk, startVars, poisoned, sealed>> /\ pc[c] = "resolving"
    BY <1>2 DEF Admit
  <2>2. Opened /\ initialized
    BY <2>1 DEF Opened, EpochInv
  <2> QED
    BY <2>1, <2>2, RecoveryKept
<1>3. ASSUME NEW c \in Calls, LaterStep(c) PROVE RecoveryInv'
  <2>1. /\ Moves /\ UNCHANGED <<disk, startVars, poisoned>> /\ (sealed => sealed')
        /\ pc[c] \in Unsettled \cup {"settled"}
    BY <1>3, LaterMoves
  <2>2. initialized
    BY <2>1 DEF EpochInv
  <2> QED
    BY <2>1, <2>2, MovesOpenNothing, RecoveryKept
<1>4. ASSUME NEW c \in Calls, Adapter(c) PROVE RecoveryInv'
  <2>1. /\ Moves /\ UNCHANGED <<disk, startVars, poisoned, sealed>>
        /\ queue' # queue => pc[c] = "running"
    BY <1>4, AdapterMoves
  <2>2. queue' = queue \/ initialized
    BY <2>1 DEF EpochInv, Unsettled
  <2> QED
    BY <2>1, <2>2, MovesOpenNothing, RecoveryKept
<1>5. CASE Initialize
  <2>1. \A c \in Calls : pc[c] \notin Unsettled \cup {"resolving", "settled"}
    BY <1>5 DEF Initialize, EpochInv
  <2>2. /\ initialized' /\ sealed' = TRUE /\ evidence' = {c \in hist : NeedsRecovery(disk[c])}
        /\ refresh'.todo = evidence' /\ UNCHANGED <<pc, disk, hist, queue>>
    BY <1>5 DEF Initialize
  <2>3. ~Opened'
    BY <2>1, <2>2 DEF Opened, Begun
  <2> QED
    BY <2>2, <2>3 DEF RecoveryInv
<1>6. CASE Crash
  <2>1. /\ ~initialized' /\ ~serving' /\ ~poisoned' /\ ~refresh'.on /\ \A c \in Calls : queue'[c] = <<>>
        /\ \A c \in Calls : pc'[c] \in {"idle", "lost"}
    BY <1>6 DEF Crash, NoRefresh
  <2>2. ~Opened'
    BY <2>1 DEF Opened, Begun, Unsettled, WriteTags
  <2> QED
    BY <2>1, <2>2 DEF RecoveryInv
<1> QED
  BY <1>1, <1>2, <1>3, <1>4, <1>5, <1>6, StoreRecovery, HostRecovery, NextCases

-----------------------------------------------------------------------------
(* The request keys. *)

\* After admission nobody enters, and nobody is in the middle of entering.
LEMMA KeysKept ==
  ASSUME KeyInv, TypeOK, Moves, \A d \in Calls : Entered(d)' => Entered(d) PROVE KeyInv'
<1>1. \A d \in Calls : pc'[d] # "resolving"
  BY DEF Moves, Quiet, Unsettled, WriteTags
<1> QED
  BY <1>1 DEF KeyInv, Moves

\* A new version of a record belongs to an operation that has entered.
LEMMA EnteredKept ==
  ASSUME IInv, CallInv, Moves, \A d \in Calls : disk'[d] # disk[d] => queue[d] # <<>>
  PROVE  \A d \in Calls : Entered(d)' => Entered(d)
<1> SUFFICES ASSUME NEW d \in Calls, Entered(d)' PROVE Entered(d)
  OBVIOUS
<1>1. CASE Begun(d)'
  BY <1>1 DEF Moves, Begun, Entered
<1>2. CASE disk'[d] # NoRecord
  <2>1. CASE disk'[d] = disk[d]
    BY <1>2, <2>1 DEF Entered
  <2>2. CASE queue[d] # <<>>
    BY <2>2, RecordFacts DEF IInv, EpochInv, CallInv, QueueInv, Entered
  <2> QED
    BY <2>1, <2>2
<1> QED
  BY <1>1, <1>2 DEF Entered

\* Every step preserves it.
LEMMA KeysStep == ASSUME IInv, CallInv, KeyInv, Next PROVE KeyInv'
<1> USE DEF IInv
<1>1. ASSUME NEW c \in Calls, Submit(c) \/ TargetStale(c) PROVE KeyInv'
  <2>1. /\ UNCHANGED <<disk, dedup, initialized>> /\ \A d \in Calls \ {c} : pc'[d] = pc[d]
        /\ pc[c] \in Empty /\ pc'[c] \in Empty
        /\ pc'[c] = "resolving" => initialized /\ dedup[KeyOf[c]] = NoCall
    BY <1>1 DEF Submit, TargetStale, Goto, TypeOK, Empty
  <2>2. ~Entered(c) /\ ~Entered(c)'
    BY <2>1 DEF Entered, Begun, EpochInv, Empty, Unsettled, WriteTags
  <2>3. \A d \in Calls : Entered(d)' <=> Entered(d)
    BY <2>1, <2>2 DEF Entered, Begun
  <2> QED
    BY <2>1, <2>2, <2>3 DEF KeyInv
<1>2. ASSUME NEW c \in Calls, Admit(c) PROVE KeyInv'
  <2>1. /\ pc[c] = "resolving" /\ UNCHANGED <<disk, initialized>> /\ disk[c] = NoRecord
    BY <1>2 DEF Admit, EpochInv, Empty
  <2>2. CASE ~AllFree(c)
    <3>1. pc' = [pc EXCEPT ![c] = "busy"] /\ UNCHANGED dedup
      BY <1>2, <2>2 DEF Admit, Goto
    <3>2. ~Entered(c)' /\ pc'[c] # "resolving" /\ \A d \in Calls \ {c} : pc'[d] = pc[d]
      BY <2>1, <3>1 DEF Entered, Begun, Unsettled, WriteTags, TypeOK
    <3>3. \A d \in Calls : Entered(d)' => Entered(d) /\ d # c
      BY <2>1, <3>2 DEF Entered, Begun
    <3> QED
      BY <2>1, <3>1, <3>2, <3>3 DEF KeyInv
  <2>3. CASE AllFree(c)
    <3>1. /\ dedup' = [dedup EXCEPT ![KeyOf[c]] = c]
          /\ PersistOr(c, "registered", Registered, "failing")
      BY <1>2, <2>3 DEF Admit
    <3>2. pc' = [pc EXCEPT ![c] = "registered"] \/ pc' = [pc EXCEPT ![c] = "failing"]
      BY <3>1, PersistOrEffect DEF WriteTags
    <3>3. pc'[c] \in {"registered", "failing"} /\ \A d \in Calls \ {c} : pc'[d] = pc[d]
      BY <3>2 DEF TypeOK
    <3>4. \A d \in Calls \ {c} : Entered(d)' <=> Entered(d)
      BY <2>1, <3>3 DEF Entered, Begun
    <3>5. \A d \in Calls : dedup'[KeyOf[d]] = IF KeyOf[d] = KeyOf[c] THEN c ELSE dedup[KeyOf[d]]
      BY <3>1, CoreAssumption DEF TypeOK
    <3>6. ASSUME NEW d \in Calls \ {c}, KeyOf[c] = KeyOf[d], PayloadOf[c] = PayloadOf[d], Entered(d)
          PROVE  FALSE
      <4>1. pc[d] \in {"registered", "failing"}
        BY <2>1, <3>6 DEF KeyInv
      <4>2. Owes(d) /\ Needs[c] = Needs[d]
        BY <4>1, <3>6, CoreAssumption DEF Owes, Active, Unsettled, WriteTags
      <4>3. PICK r \in Resources : r \in Needs[d]
        BY CoreAssumption
      <4>4. slot[r].op = d
        BY <4>2, <4>3, LeasesAre
      <4> QED
        BY <2>3, <4>2, <4>3, <4>4, CoreAssumption DEF AllFree, FreeSlot
    <3>7. initialized' => \A d \in Calls : Entered(d)' => dedup'[KeyOf[d]] # NoCall
      BY <2>1, <3>4, <3>5, CoreAssumption DEF KeyInv
    <3>8. \A d, e \in Calls : pc'[e] = "resolving" /\ KeyOf[d] = KeyOf[e] /\ Entered(d)' =>
            pc'[d] \in {"registered", "failing"}
      BY <3>3, <3>4 DEF KeyInv
    <3>9. \A d, e \in Calls : d # e /\ KeyOf[d] = KeyOf[e] /\ PayloadOf[d] = PayloadOf[e] =>
            ~(Entered(d)' /\ Entered(e)')
      BY <3>4, <3>6 DEF KeyInv
    <3> QED
      BY <3>7, <3>8, <3>9 DEF KeyInv
  <2> QED
    BY <2>2, <2>3
<1>3. ASSUME NEW c \in Calls, LaterStep(c) PROVE KeyInv'
  BY <1>3, LaterMoves, EnteredKept, KeysKept
<1>4. ASSUME NEW c \in Calls, Adapter(c) PROVE KeyInv'
  BY <1>4, AdapterMoves, EnteredKept, KeysKept
<1>5. ASSUME NEW c \in Calls, Store(c) PROVE KeyInv'
  <2>1. Moves /\ queue[c] # <<>>
    BY <1>5, StoreMoves
  <2>2. \A d \in Calls : disk'[d] # disk[d] => d = c
    BY <1>5 DEF Store, WriteLands, WriteSynced, WriteFails, WriteRefused, WriteStarts, DurableTimeout, TypeOK
  <2> QED
    BY <2>1, <2>2, EnteredKept, KeysKept
<1>6. CASE HostStep
  BY <1>6, HostMoves, EnteredKept, KeysKept
<1>7. CASE Initialize
  <2>1. /\ \A c \in Calls : pc[c] \notin Unsettled \cup {"resolving", "settled"}
        /\ UNCHANGED <<pc, disk>> /\ dedup' = RestoredKeys
    BY <1>7 DEF Initialize, EpochInv
  <2>2. \A c \in Calls : Entered(c)' => Entered(c) /\ c \in hist
    BY <2>1 DEF Entered, Begun, CallInv, DiskInv
  <2>3. ASSUME NEW c \in hist PROVE RestoredKeys[KeyOf[c]] # NoCall
    <3>1. c \in Calls /\ hist \subseteq Calls /\ KeyOf[c] \in Keys
      BY <2>3, CoreAssumption DEF TypeOK
    <3>2. RestoredKeys[KeyOf[c]] = CHOOSE d \in hist : KeyOf[d] = KeyOf[c]
      BY <2>3, <3>1 DEF RestoredKeys
    <3>3. (CHOOSE d \in hist : KeyOf[d] = KeyOf[c]) \in hist
      BY <2>3
    <3> QED
      BY <3>1, <3>2, <3>3, CoreAssumption
  <2> QED
    BY <2>1, <2>2, <2>3 DEF KeyInv
<1>8. CASE Crash
  <2>1. ~initialized' /\ UNCHANGED disk /\ \A c \in Calls : pc'[c] \in {"idle", "lost"}
    BY <1>8 DEF Crash
  <2>2. \A c \in Calls : (Entered(c)' => Entered(c)) /\ pc'[c] # "resolving"
    BY <2>1 DEF Entered, Begun, Unsettled, WriteTags
  <2> QED
    BY <2>1, <2>2 DEF KeyInv
<1> QED
  BY <1>1, <1>2, <1>3, <1>4, <1>5, <1>6, <1>7, <1>8, NextCases

-----------------------------------------------------------------------------
(* The invariant, and effects that do not overlap. *)

\* What may act owns what it acts on: its leases, or a record of an earlier
\* process that still needs recovery.
LEMMA ActorsOwn ==
  ASSUME IInv, SafeInv, NEW c \in Calls, live[c]
  PROVE  /\ pc[c] # "lost" => Owes(c)
         /\ pc[c] = "lost" => c \in hist /\ NeedsRecovery(disk[c])
         /\ \A d \in Calls : Begun(d) => c \notin hist
<1>1. DiskInv(c) /\ EffectInv(c)
  BY DEF SafeInv, CallInv
<1>2. sent[c] /\ disk[c].gate = "send-authorized" /\ disk[c].cleanup # "complete"
  BY <1>1 DEF EffectInv, DiskInv
<1>3. disk[c] # NoRecord /\ NeedsRecovery(disk[c])
  BY <1>2 DEF NoRecord, NeedsRecovery
<1>4. pc[c] = "lost" => c \in hist
  BY <1>1, <1>3 DEF DiskInv, Begun, Unsettled, WriteTags
<1> QED
  BY <1>1, <1>3, <1>4 DEF EffectInv, SafeInv, RecoveryInv, Opened

\* Only a send lets an operation act.
LEMMA SendsOnly ==
  ASSUME IInv, Next
  PROVE  (\E c \in Calls : NativeSend(c)) \/ (\A d \in Calls : live'[d] => live[d])
<1>1. ASSUME NEW c \in Calls, Submit(c) \/ Admit(c) \/ TargetStale(c) PROVE live' = live
  BY <1>1 DEF Submit, Admit, TargetStale
<1>2. ASSUME NEW c \in Calls, LaterStep(c) \/ Store(c) PROVE live' = live
  BY <1>2, LaterMoves, StoreMoves
<1>3. ASSUME NEW c \in Calls, Adapter(c) PROVE NativeSend(c) \/ (\A d \in Calls : live'[d] => live[d])
  <2>1. CASE NativeStops(c)
    BY <2>1 DEF NativeStops, IInv, TypeOK
  <2>2. CASE RequestAuthorization(c) \/ ViewRefused(c) \/ AdapterReturns(c) \/ AdapterThrows(c)
    BY <2>2 DEF RequestAuthorization, ViewRefused, AdapterReturns, AdapterThrows
  <2> QED
    BY <1>3, <2>1, <2>2 DEF Adapter
<1>4. HostStep => live' = live
  BY DEF HostStep, Seal, Unseal, Drain, DrainEnds, RefreshStart, RefreshEnds, RefreshKeeps, RefreshWrites
<1>5. Crash \/ Initialize => live' = live
  BY DEF Crash, Initialize
<1> QED
  BY <1>1, <1>2, <1>3, <1>4, <1>5, NextCases

\* Two effects that have begun stay apart, and a new one begins under leases.
LEMMA OverlapStep ==
  ASSUME IInv, SafeInv, NoOverlappingEffects, Next PROVE NoOverlappingEffects'
<1>1. ASSUME NEW c \in Calls, NativeSend(c) PROVE NoOverlappingEffects'
  <2>1. /\ pc[c] = "running" /\ live' = [live EXCEPT ![c] = TRUE]
    BY <1>1 DEF NativeSend
  <2>2. Owes(c) /\ Begun(c)
    BY <2>1 DEF Owes, Active, Begun, Unsettled
  <2>3. ASSUME NEW d \in Calls \ {c}, live[d] PROVE Needs[c] \cap Needs[d] = {}
    <3>1. Owes(d)
      BY <2>2, <2>3, ActorsOwn
    <3>2. \A r \in Resources : ~(r \in Needs[c] /\ r \in Needs[d])
      BY <2>2, <3>1, LeasesAre DEF IInv
    <3> QED
      BY <3>2, CoreAssumption
  <2>4. \A d \in Calls \ {c} : live'[d] = live[d]
    BY <2>1 DEF IInv, TypeOK
  <2> QED
    BY <2>3, <2>4 DEF NoOverlappingEffects
<1>2. CASE \A d \in Calls : live'[d] => live[d]
  BY <1>2 DEF NoOverlappingEffects
<1> QED
  BY <1>1, <1>2, SendsOnly

\* An empty machine with an empty journal.
LEMMA SafeInit == Init => SafeInv /\ NoOverlappingEffects
<1> SUFFICES ASSUME Init PROVE SafeInv /\ NoOverlappingEffects
  OBVIOUS
<1>1. CallInv
  <2> SUFFICES ASSUME NEW c \in Calls PROVE QueueInv(c) /\ DiskInv(c) /\ EffectInv(c)
    BY DEF CallInv
  <2>1. /\ pc[c] = "idle" /\ queue[c] = <<>> /\ disk[c] = NoRecord /\ started[c] = FALSE
        /\ sent[c] = FALSE /\ live[c] = FALSE /\ auth[c] = "none" /\ recon[c] = "none" /\ hist = {}
    BY DEF Init
  <2>2. Len(queue[c]) = 0
    BY <2>1
  <2> QED
    BY <2>1, <2>2 DEF QueueInv, DiskInv, EffectInv, NoRecord, Begun, BeforeEnd
<1>2. SlotInv
  BY DEF Init, SlotInv, FreeSlot
<1>3. RecoveryInv
  BY DEF Init, RecoveryInv, Opened, Begun, NoRefresh, Unsettled, WriteTags
<1>4. KeyInv
  <2>1. \A c \in Calls : ~Entered(c) /\ pc[c] # "resolving"
    BY DEF Init, Entered, Begun, Unsettled, WriteTags
  <2> QED
    BY <2>1 DEF KeyInv
<1>5. NoOverlappingEffects
  BY DEF Init, NoOverlappingEffects
<1> QED
  BY <1>1, <1>2, <1>3, <1>4, <1>5 DEF SafeInv

\* The inductive invariant.
FullInv == IInv /\ SafeInv /\ NoOverlappingEffects

\* Nothing changes.
LEMMA SafeStutter == ASSUME SafeInv, NoOverlappingEffects, UNCHANGED vars PROVE SafeInv' /\ NoOverlappingEffects'
<1>1. CallInv'
  BY HostCall DEF SafeInv
<1>2. SlotInv' /\ NoOverlappingEffects'
  BY DEF SafeInv, SlotInv, NoOverlappingEffects
<1>3. RecoveryInv'
  BY DEF SafeInv, RecoveryInv, Opened, Begun
<1>4. KeyInv'
  BY DEF SafeInv, KeyInv, Entered, Begun
<1> QED
  BY <1>1, <1>2, <1>3, <1>4 DEF SafeInv

\* Every step keeps the invariant.
LEMMA FullStep == FullInv /\ [Next]_vars => FullInv'
<1> SUFFICES ASSUME FullInv, [Next]_vars PROVE FullInv'
  OBVIOUS
<1> USE DEF FullInv
<1>1. IInv'
  BY StepInv
<1>2. CASE Next
  <2>1. SafeInv'
    BY <1>2, CallsStep, SlotsStep, RecoveryStep, KeysStep DEF SafeInv
  <2> QED
    BY <1>1, <1>2, <2>1, OverlapStep
<1>3. CASE UNCHANGED vars
  BY <1>1, <1>3, SafeStutter
<1> QED
  BY <1>2, <1>3

\* The inductive invariant holds: for any calls, keys and resources, and any
\* number of crashes and faults of the store that the bounds allow.
THEOREM SafetyHolds == Spec => []FullInv
<1>1. Init => FullInv
  BY InitInv, SafeInit DEF FullInv
<1> QED
  BY <1>1, FullStep, PTL DEF Spec

\* Two operations that may act on the machine at the same time share no resource:
\* not under leases, not under quarantine, and not when one of them was left behind
\* in the native helper by a runtime that died.
THEOREM EffectsStayApart == Spec => []NoOverlappingEffects
<1>1. FullInv => NoOverlappingEffects
  BY DEF FullInv
<1> QED
  BY <1>1, SafetyHolds, PTL

\* The adapter runs only after the journal says "dispatching", and native input
\* leaves the runtime only after the journal says that sending was authorized,
\* whatever the store delays or refuses.
THEOREM JournalWritesAhead == Spec => []WriteAhead
<1>1. FullInv => WriteAhead
  BY DEF FullInv, SafeInv, CallInv, DiskInv, WriteAhead
<1> QED
  BY <1>1, SafetyHolds, PTL

\* No record on disk calls a cleanup complete while the native helper still acts
\* for the operation, not even the late write of a handler that went on without it.
THEOREM JournalledCleanupIsTrue == Spec => []DurableCleanupIsTrue
<1>1. FullInv => DurableCleanupIsTrue
  BY DEF FullInv, SafeInv, CallInv, DiskInv, DurableCleanupIsTrue
<1> QED
  BY <1>1, SafetyHolds, PTL

\* A caller who is told "completed" can find exactly that record on disk.
THEOREM CompletionIsDurable == Spec => []CompletedIsDurable
<1>1. FullInv => CompletedIsDurable
  BY DEF FullInv, SafeInv, CallInv, DiskInv, CompletedIsDurable
<1> QED
  BY <1>1, SafetyHolds, PTL

\* While admission is open the storage is sound, and every operation of an earlier
\* runtime is settled on disk and has let go of the machine.
THEOREM AdmissionIsSafe == Spec => []AdmissionOpensSafely
<1>1. FullInv => AdmissionOpensSafely
  <2> SUFFICES ASSUME FullInv, initialized, ~sealed
               PROVE  ~poisoned /\ \A c \in hist : ~NeedsRecovery(disk[c]) /\ ~live[c]
    BY DEF AdmissionOpensSafely
  <2>1. ~poisoned /\ \A c \in hist : ~NeedsRecovery(disk[c])
    BY DEF FullInv, SafeInv, RecoveryInv, Opened
  <2>2. \A c \in hist : disk[c].cleanup = "complete" => ~live[c]
    BY DEF FullInv, IInv, TypeOK, SafeInv, CallInv, DiskInv
  <2> QED
    BY <2>1, <2>2 DEF NeedsRecovery
<1> QED
  BY <1>1, SafetyHolds, PTL

\* A retry of a request with the same key and payload sends native input at most
\* once: during the first call, after it, and after a restart.
THEOREM OneEffectPerKey == Spec => []AtMostOnceEffect
<1>1. FullInv => AtMostOnceEffect
  <2>1. FullInv => \A c \in Calls : sent[c] => Entered(c)
    BY DEF FullInv, SafeInv, CallInv, DiskInv, NoRecord, Entered
  <2> QED
    BY <2>1 DEF FullInv, SafeInv, KeyInv, AtMostOnceEffect
<1> QED
  BY <1>1, SafetyHolds, PTL

-----------------------------------------------------------------------------
(* What a step may never do. *)

\* What may happen to a quarantined lease while the process lives.
Lifted(r) ==
  slot[r].state = "quarantined" /\ slot'[r] # slot[r] =>
    ~live[slot[r].op] /\ disk[slot[r].op].cleanup = "complete"

\* A quarantined slot belongs to an operation that has ended.
LEMMA QuarantinedAreEnded ==
  ASSUME IInv, SlotInv, NEW r \in Resources, slot[r].state = "quarantined"
  PROVE  slot[r] # FreeSlot /\ slot[r].op \in Calls /\ pc[slot[r].op] \in {"quarantining", "settle", "settled"}
<1>1. slot[r] # FreeSlot /\ slot[r].op \in Calls \cup {NoCall}
  BY DEF FreeSlot, IInv, TypeOK, Slot
<1> QED
  BY <1>1 DEF SlotInv, Ended

\* Handlers lift no quarantine, except for the end of a reconciliation.
LEMMA LaterLifts ==
  ASSUME FullInv, NEW c \in Calls, LaterStep(c), NEW r \in Resources PROVE Lifted(r)
<1> USE DEF FullInv, SafeInv
<1> SUFFICES ASSUME slot[r].state = "quarantined", slot'[r] # slot[r]
             PROVE  ~live[slot[r].op] /\ disk[slot[r].op].cleanup = "complete"
  BY DEF Lifted
<1>1. pc[slot[r].op] \in {"quarantining", "settle", "settled"}
  BY QuarantinedAreEnded
<1>2. CASE Check(c) \/ Ready(c) \/ VerifyAccepts(c) \/ VerifyRejects(c) \/ GraceExpires(c) \/ CatchUnsent(c)
  BY <1>2 DEF Check, Ready, VerifyAccepts, VerifyRejects, GraceExpires, CatchUnsent
<1>3. CASE Abort(c) \/ Cancel(c) \/ Reconcile(c)
  BY <1>3 DEF Abort, Cancel, Reconcile
<1>4. ASSUME NEW k, slot' = SlotsAfter(c, k) PROVE slot[r].op = c
  BY <1>4 DEF SlotsAfter
<1>5. CASE Commit(c)
  BY <1>1, <1>4, <1>5 DEF Commit
<1>6. CASE CatchUnknown(c)
  BY <1>1, <1>4, <1>6 DEF CatchUnknown
<1>7. CASE Settle(c)
  <2>1. pc[c] = "release" /\ slot' = SlotsAfter(c, "complete")
    BY <1>7 DEF Settle
  <2> QED
    BY <1>1, <1>4, <2>1
<1>8. CASE ReconcileCommit(c)
  <2>1. recon[c] = "written" /\ slot[r].op = c
    BY <1>4, <1>8 DEF ReconcileCommit
  <2> QED
    BY <2>1 DEF CallInv, DiskInv
<1> QED
  BY <1>2, <1>3, <1>5, <1>6, <1>7, <1>8 DEF LaterStep

\* A quarantined lease becomes free only when its operation has stopped acting and
\* the journal holds its completed cleanup; only a crash forgets a quarantine.
THEOREM QuarantineNeedsProof == Spec => QuarantineLiftsOnProof
<1> DEFINE A == \A r \in Resources :
       slot[r].state = "quarantined" /\ slot'[r] # slot[r] /\ crashes' = crashes =>
         ~live[slot[r].op] /\ disk[slot[r].op].cleanup = "complete"
<1>1. FullInv /\ [Next]_vars => [A]_vars
  <2> SUFFICES ASSUME FullInv, Next, crashes' = crashes, NEW r \in Resources PROVE Lifted(r)
    BY DEF Lifted
  <2>1. ASSUME NEW c \in Calls, Submit(c) \/ TargetStale(c) \/ Adapter(c) \/ Store(c) PROVE Lifted(r)
    <3>1. slot' = slot
      BY <2>1, AdapterMoves, StoreMoves DEF Submit, TargetStale, FullInv
    <3> QED
      BY <3>1 DEF Lifted
  <2>2. ASSUME NEW c \in Calls, Admit(c) PROVE Lifted(r)
    <3>1. slot'[r] # slot[r] => slot[r] = FreeSlot
      BY <2>2 DEF Admit, AllFree
    <3> QED
      BY <3>1 DEF Lifted, FreeSlot
  <2>3. ASSUME NEW c \in Calls, LaterStep(c) PROVE Lifted(r)
    BY <2>3, LaterLifts
  <2>4. CASE HostStep \/ Initialize
    <3>1. slot' = slot
      BY <2>4, HostMoves DEF Initialize, FullInv
    <3> QED
      BY <3>1 DEF Lifted
  <2>5. CASE Crash
    <3>1. crashes' = crashes + 1 /\ crashes \in Nat
      BY <2>5, CoreAssumption DEF Crash, FullInv, IInv, TypeOK
    <3> QED
      BY <3>1
  <2> QED
    BY <2>1, <2>2, <2>3, <2>4, <2>5, NextCases
<1> QED
  BY <1>1, SafetyHolds, PTL DEF Spec, QuarantineLiftsOnProof

\* A drain comes clean only by its own verdict.
LEMMA OnlyDrainEnds ==
  ASSUME FullInv, Next, drain.phase = "waiting", drain'.phase = "clean" PROVE DrainEnds
<1>1. ASSUME NEW c \in Calls, Submit(c) \/ Admit(c) \/ TargetStale(c) PROVE drain' = drain
  BY <1>1 DEF Submit, Admit, TargetStale
<1>2. ASSUME NEW c \in Calls, LaterStep(c) \/ Adapter(c) \/ Store(c) PROVE drain' = drain
  BY <1>2, LaterMoves, AdapterMoves, StoreMoves DEF FullInv
<1>3. Crash \/ Initialize => drain' = drain \/ drain' = NoDrain
  BY DEF Crash, Initialize
<1>4. HostStep => drain' = drain \/ Drain \/ DrainEnds
  BY DEF HostStep, Seal, Unseal, RefreshStart, RefreshEnds, RefreshKeeps, RefreshWrites
<1>5. Drain => drain'.phase = "waiting"
  BY DEF Drain
<1> QED
  BY <1>1, <1>2, <1>3, <1>4, <1>5, NextCases DEF NoDrain

\* drainOperations reports success only when nothing of this runtime acts on the
\* machine any more and no lease is left.
THEOREM CleanDrainIsQuiet == Spec => DrainCleanIsQuiet
<1> DEFINE A == drain.phase = "waiting" /\ drain'.phase = "clean" =>
                  /\ \A c \in Calls : pc[c] # "lost" => ~live[c]
                  /\ \A r \in Resources : slot[r] = FreeSlot
<1>1. FullInv /\ [Next]_vars => [A]_vars
  <2> SUFFICES ASSUME FullInv, Next, drain.phase = "waiting", drain'.phase = "clean"
               PROVE  /\ \A c \in Calls : pc[c] # "lost" => ~live[c]
                      /\ \A r \in Resources : slot[r] = FreeSlot
    OBVIOUS
  <2> USE DEF FullInv, SafeInv
  <2>1. QuarantinedSlots = {} /\ Active = {}
    BY OnlyDrainEnds DEF DrainEnds, NothingLeft
  <2>2. ASSUME NEW r \in Resources PROVE slot[r] = FreeSlot
    <3>1. slot[r].op \in Calls \cup {NoCall} /\ slot[r].state # "quarantined"
      BY <2>1 DEF IInv, TypeOK, Slot, QuarantinedSlots
    <3>2. ASSUME slot[r].op \in Calls PROVE FALSE
      <4>1. Owes(slot[r].op)
        BY <3>2, LeasesAre DEF IInv
      <4>2. pc[slot[r].op] = "settled"
        BY <2>1, <4>1 DEF Owes
      <4> QED
        BY <3>1, <3>2, <4>2, CoreAssumption DEF SlotInv, Ended
    <3> QED
      BY <3>1, <3>2 DEF SlotInv
  <2>3. ASSUME NEW c \in Calls, pc[c] # "lost", live[c] PROVE FALSE
    <3>1. Owes(c)
      BY <2>3, ActorsOwn
    <3>2. PICK r \in Resources : r \in Needs[c]
      BY CoreAssumption
    <3>3. slot[r].op = c
      BY <3>1, <3>2, LeasesAre DEF IInv
    <3> QED
      BY <2>2, <3>3, CoreAssumption DEF FreeSlot
  <2> QED
    BY <2>2, <2>3
<1> QED
  BY <1>1, SafetyHolds, PTL DEF Spec, DrainCleanIsQuiet

-----------------------------------------------------------------------------
(* The refinement. *)

\* The operations that may be acting.
Acting == {c \in Calls : live[c]}

\* The steps of the abstract specification, on what the runtime owns.
LEMMA OwnedAre ==
  /\ OwnedPairs \subseteq Resources \X Calls
  /\ \A r \in Resources, c \in Calls :
       <<r, c>> \in OwnedPairs <=> slot[r].op = c \/ (c \in hist /\ live[c] /\ r \in Needs[c])
  BY DEF OwnedPairs

\* Nothing about ownership or effects has changed.
LEMMA NothingOwned ==
  ASSUME \A r \in Resources : slot'[r].op = slot[r].op, live' = live, hist' = hist
  PROVE  UNCHANGED <<OwnedPairs, Acting>>
  BY DEF OwnedPairs, Acting

\* A completed cleanup gives back what the operation owned.
LEMMA CleanupGives ==
  ASSUME NEW c \in Calls, slot' = SlotsAfter(c, "complete"), ~live[c], UNCHANGED <<live, hist>>
  PROVE  /\ {c} \cap Acting = {} /\ OwnedPairs' = OwnedPairs \ (Resources \X {c})
         /\ Acting' = Acting
<1>1. \A r \in Resources, d \in Calls : slot'[r].op = d <=> slot[r].op = d /\ d # c
  BY CoreAssumption DEF SlotsAfter, FreeSlot
<1>2. OwnedPairs' = OwnedPairs \ (Resources \X {c})
  BY <1>1 DEF OwnedPairs
<1> QED
  BY <1>2 DEF Acting

-----------------------------------------------------------------------------
\* A step of the abstract specification, or none.
AbstractStep == EE!Next \/ UNCHANGED <<OwnedPairs, Acting>>

\* A handler gives up at most what it owns, and not before its effect is over.
LEMMA LaterImplements ==
  ASSUME FullInv, NEW c \in Calls, LaterStep(c) PROVE AbstractStep
<1> USE DEF FullInv, SafeInv
<1>1. UNCHANGED <<live, hist>>
  BY LaterMoves
<1>2. ASSUME slot' = SlotsAfter(c, "complete"), ~live[c] PROVE EE!Next
  <2>1. EE!Give({c})
    BY <1>1, <1>2, CleanupGives DEF EE!Give, Acting
  <2> QED
    BY <2>1 DEF EE!Next
<1>3. ASSUME slot' = slot PROVE AbstractStep
  BY <1>1, <1>3, NothingOwned DEF AbstractStep
<1>4. ASSUME NEW k, k # "complete", slot' = SlotsAfter(c, k) PROVE AbstractStep
  <2>1. \A r \in Resources : slot'[r].op = slot[r].op
    BY <1>4 DEF SlotsAfter, Held
  <2> QED
    BY <1>1, <2>1, NothingOwned DEF AbstractStep
<1>5. DiskInv(c) /\ EffectInv(c)
  BY DEF CallInv
<1>6. CASE Check(c) \/ Ready(c) \/ VerifyAccepts(c) \/ VerifyRejects(c) \/ GraceExpires(c) \/ CatchUnsent(c)
           \/ Abort(c) \/ Cancel(c) \/ Reconcile(c)
  BY <1>3, <1>6 DEF Check, Ready, VerifyAccepts, VerifyRejects, GraceExpires, CatchUnsent, Abort, Cancel, Reconcile
<1>7. CASE Commit(c)
  <2>1. slot' = slot \/ slot' = SlotsAfter(c, staged[c].cleanup)
    BY <1>7 DEF Commit
  <2>2. staged[c].cleanup = "complete" => ~live[c]
    BY <1>5, <1>7 DEF Commit, DiskInv
  <2> QED
    BY <1>2, <1>3, <1>4, <2>1, <2>2 DEF AbstractStep
<1>8. CASE CatchUnknown(c)
  BY <1>4, <1>8 DEF CatchUnknown
<1>9. CASE Settle(c)
  <2>1. slot' = slot \/ (pc[c] = "release" /\ slot' = SlotsAfter(c, "complete"))
    BY <1>9 DEF Settle
  <2> QED
    BY <1>2, <1>3, <1>5, <2>1 DEF AbstractStep, EffectInv
<1>10. CASE ReconcileCommit(c)
  <2>1. recon[c] = "written" /\ slot' = SlotsAfter(c, "complete")
    BY <1>10 DEF ReconcileCommit
  <2> QED
    BY <1>2, <1>5, <2>1 DEF AbstractStep, DiskInv
<1> QED
  BY <1>6, <1>7, <1>8, <1>9, <1>10 DEF LaterStep

\* Leases are taken only where nobody owns anything.
LEMMA AdmitImplements ==
  ASSUME FullInv, NEW c \in Calls, Admit(c) PROVE AbstractStep
<1> USE DEF FullInv, SafeInv
<1>1. UNCHANGED <<live, hist>> /\ pc[c] = "resolving"
  BY DEF Admit
<1>2. CASE ~AllFree(c)
  BY <1>1, <1>2, NothingOwned DEF Admit, AbstractStep
<1>3. CASE AllFree(c)
  <2>1. slot' = [r \in Resources |-> IF r \in Needs[c] THEN Held(c, "active") ELSE slot[r]]
    BY <1>3 DEF Admit
  <2>2. Needs[c] \subseteq Resources
    BY CoreAssumption
  <2>3. \A d \in hist : ~live[d]
    <3>1. Opened
      BY <1>1 DEF Opened
    <3>2. ASSUME NEW d \in hist, live[d] PROVE FALSE
      <4>1. d \in Calls /\ pc[d] = "lost"
        BY <3>2 DEF IInv, TypeOK, EpochInv
      <4>2. NeedsRecovery(disk[d])
        BY <3>2, <4>1, ActorsOwn
      <4> QED
        BY <3>1, <3>2, <4>2 DEF RecoveryInv
    <3> QED
      BY <3>2
  <2>4. \A r \in Needs[c], d \in Calls : <<r, d>> \notin OwnedPairs
    <3>1. \A r \in Needs[c] : r \in Resources /\ slot[r].op = NoCall
      BY <1>3, <2>2 DEF AllFree, FreeSlot
    <3>2. \A r \in Needs[c], d \in Calls : slot[r].op # d
      BY <3>1, CoreAssumption
    <3> QED
      BY <2>3, <3>1, <3>2, OwnedAre
  <2>5. \A r \in Resources, d \in Calls :
          slot'[r].op = d <=> (r \in Needs[c] /\ d = c) \/ (r \notin Needs[c] /\ slot[r].op = d)
    BY <2>1 DEF Held
  <2>6. \A r \in Needs[c], d \in Calls : slot[r].op # d
    BY <1>3, <2>2, CoreAssumption DEF AllFree, FreeSlot
  <2>7. OwnedPairs' = OwnedPairs \cup (Needs[c] \X {c})
    BY <1>1, <2>2, <2>5, <2>6 DEF OwnedPairs
  <2>8. EE!Take(c)
    BY <1>1, <2>4, <2>7 DEF EE!Take
  <2> QED
    BY <2>8 DEF AbstractStep, EE!Next
<1> QED
  BY <1>2, <1>3

\* A send acts on what is owned; the end of an effect may end ownership.
LEMMA AdapterImplements ==
  ASSUME FullInv, NEW c \in Calls, Adapter(c) PROVE AbstractStep
<1> USE DEF FullInv, SafeInv
<1>1. slot' = slot /\ hist' = hist
  BY AdapterMoves
<1>2. CASE NativeSend(c)
  <2>1. pc[c] = "running" /\ live' = [live EXCEPT ![c] = TRUE]
    BY <1>2 DEF NativeSend
  <2>2. c \notin hist /\ Owes(c)
    BY <2>1 DEF IInv, EpochInv, Owes, Active, Unsettled
  <2>3. Needs[c] \subseteq {r \in Resources : <<r, c>> \in OwnedPairs}
    BY <2>2, LeasesAre, OwnedAre, CoreAssumption DEF IInv
  <2>4. \A d \in Calls : live'[d] <=> live[d] \/ d = c
    BY <2>1 DEF IInv, TypeOK
  <2>5. Acting' = Acting \cup {c}
    BY <2>4 DEF Acting
  <2>6. OwnedPairs' = OwnedPairs
    BY <1>1, <2>2, <2>4 DEF OwnedPairs
  <2>7. EE!Act(c)
    BY <2>3, <2>5, <2>6 DEF EE!Act, EE!Owned, Acting
  <2> QED
    BY <2>7 DEF AbstractStep, EE!Next
<1>3. CASE NativeStops(c)
  <2>1. live[c] /\ live' = [live EXCEPT ![c] = FALSE]
    BY <1>3 DEF NativeStops
  <2>2. \A d \in Calls : live'[d] <=> live[d] /\ d # c
    BY <2>1 DEF IInv, TypeOK
  <2>3. Acting' = Acting \ {c} /\ c \in Acting
    BY <2>1, <2>2 DEF Acting
  <2>4. OwnedPairs' \in {OwnedPairs, OwnedPairs \ (Resources \X {c})}
    <3>1. CASE c \notin hist
      <4>1. OwnedPairs' = OwnedPairs
        BY <1>1, <2>2, <3>1 DEF OwnedPairs
      <4> QED
        BY <4>1
    <3>2. CASE c \in hist
      <4>1. \A r \in Resources : slot[r].op # c
        BY <3>2, LeasesAre DEF IInv, EpochInv, Owes, Active, Unsettled, WriteTags
      <4>2. OwnedPairs' = OwnedPairs \ (Resources \X {c})
        BY <1>1, <2>2, <3>2, <4>1 DEF OwnedPairs
      <4> QED
        BY <4>2
    <3> QED
      BY <3>1, <3>2
  <2>5. EE!Rest(c)
    BY <2>3, <2>4 DEF EE!Rest, Acting
  <2> QED
    BY <2>5 DEF AbstractStep, EE!Next
<1>4. CASE RequestAuthorization(c) \/ ViewRefused(c) \/ AdapterReturns(c) \/ AdapterThrows(c)
  <2>1. live' = live
    BY <1>4 DEF RequestAuthorization, ViewRefused, AdapterReturns, AdapterThrows
  <2> QED
    BY <1>1, <2>1, NothingOwned DEF AbstractStep
<1> QED
  BY <1>2, <1>3, <1>4 DEF Adapter

\* The death of the process ends the ownership of whatever does not act.
LEMMA CrashImplements == ASSUME FullInv, Crash PROVE AbstractStep
<1> USE DEF FullInv, SafeInv
<1> DEFINE S == {c \in Calls : ~live[c]}
<1>1. /\ hist' = {c \in Calls : disk[c] # NoRecord} /\ live' = live
      /\ \A r \in Resources : slot'[r].op = NoCall
  BY DEF Crash, FreeSlot
<1>2. ASSUME NEW c \in Calls, live[c]
      PROVE  c \in hist' /\ \A r \in Resources : slot[r].op = c \/ c \in hist <=> r \in Needs[c] \/ c \in hist
  <2>1. disk[c] # NoRecord
    BY <1>2 DEF CallInv, DiskInv, EffectInv, NoRecord
  <2>2. c \notin hist => Owes(c)
    BY <1>2, ActorsOwn
  <2> QED
    BY <1>1, <2>1, <2>2, LeasesAre DEF IInv
<1>3. \A r \in Resources, c \in Calls :
        c \in hist' /\ live'[c] /\ r \in Needs[c] <=>
          (slot[r].op = c \/ (c \in hist /\ live[c] /\ r \in Needs[c])) /\ c \notin S
  <2> SUFFICES ASSUME NEW r \in Resources, NEW c \in Calls, live[c]
               PROVE  c \in hist' /\ r \in Needs[c] <=>
                        (slot[r].op = c \/ (c \in hist /\ r \in Needs[c]))
    BY <1>1
  <2>1. slot[r].op = c => r \in Needs[c]
    BY LeasesAre DEF IInv
  <2>2. c \in hist' /\ (c \notin hist /\ r \in Needs[c] => slot[r].op = c)
    BY <1>2
  <2> QED
    BY <2>1, <2>2
<1>4. OwnedPairs' = OwnedPairs \ (Resources \X S)
  <2>1. \A r \in Resources, c \in Calls : slot'[r].op # c
    BY <1>1, CoreAssumption
  <2> QED
    BY <1>3, <2>1 DEF OwnedPairs
<1>5. S \cap Acting = {} /\ Acting' = Acting /\ S \in SUBSET Calls
  BY <1>1 DEF Acting
<1>6. EE!Give(S)
  BY <1>4, <1>5 DEF EE!Give, Acting
<1> QED
  BY <1>5, <1>6 DEF AbstractStep, EE!Next

\* The life cycle with its leases, quarantine and startup recovery implements
\* exclusive ownership: what acts owns all it needs, nothing has two owners, and
\* a crash takes nothing away from an operation that may still act.
THEOREM RuntimeImplements == Spec => ImplementsExclusiveEffects
<1>1. Init => EE!Init
  BY CoreAssumption DEF Init, EE!Init, OwnedPairs, FreeSlot
<1>2. FullInv /\ [Next]_vars => [EE!Next]_EE!vars
  <2> SUFFICES ASSUME FullInv, [Next]_vars PROVE AbstractStep
    BY DEF AbstractStep, Acting, EE!vars
  <2>1. ASSUME NEW c \in Calls, Submit(c) \/ TargetStale(c) \/ Store(c) PROVE AbstractStep
    <3>1. slot' = slot /\ live' = live /\ hist' = hist
      BY <2>1, StoreMoves DEF Submit, TargetStale, FullInv
    <3> QED
      BY <3>1, NothingOwned DEF AbstractStep
  <2>2. CASE HostStep
    <3>1. slot' = slot /\ hist' = hist /\ live' = live
      BY <2>2, HostMoves DEF FullInv, Moves, HostStep, Seal, Unseal, Drain, DrainEnds, RefreshStart,
         RefreshEnds, RefreshKeeps, RefreshWrites
    <3> QED
      BY <3>1, NothingOwned DEF AbstractStep
  <2>3. CASE Initialize \/ UNCHANGED vars
    <3>1. slot' = slot /\ hist' = hist /\ live' = live
      BY <2>3 DEF Initialize
    <3> QED
      BY <3>1, NothingOwned DEF AbstractStep
  <2> QED
    BY <2>1, <2>2, <2>3, LaterImplements, AdmitImplements, AdapterImplements, CrashImplements, NextCases
<1> QED
  BY <1>1, <1>2, SafetyHolds, PTL DEF Spec, ImplementsExclusiveEffects, EE!Spec
=============================================================================
