------------------------ MODULE RuntimeCoreProperties ------------------------
(***************************************************************************)
(* What makes the operation life cycle of RuntimeCore correct.             *)
(***************************************************************************)
EXTENDS RuntimeCore

-----------------------------------------------------------------------------
(* Side effects. *)

\* Two operations that may act on the machine at the same time never share a
\* resource.  This spans leases, quarantine of an unknown outcome, and the
\* operations a dead runtime left behind in the native helper, whose leases
\* the new process does not even know.
NoOverlappingEffects ==
  \A c, d \in Calls : c # d /\ live[c] /\ live[d] => Needs[c] \cap Needs[d] = {}

\* Before the adapter of an operation runs, the journal says "dispatching" or
\* later; before a native mutation leaves the runtime, the journal says that
\* sending was authorized.  A crash therefore never finds an effect that the
\* journal denies.
WriteAhead ==
  \A c \in Calls :
    /\ started[c] => disk[c].state \notin {"absent", "registered"}
    /\ sent[c] => disk[c].gate = "send-authorized"

\* A record on disk that calls the cleanup complete is right: the native
\* helper neither acts nor holds input for the operation.  The record may be
\* that of a late write whose handler went on without it.
DurableCleanupIsTrue == \A c \in Calls : disk[c].cleanup = "complete" => ~live[c]

\* One request key sends native input through at most one operation, whatever
\* is retried while the first call runs, after it, or after a restart.  Calls
\* that reuse a key with another payload are not covered: see
\* OneOperationPerKey.
AtMostOnceEffect ==
  \A c, d \in Calls :
    c # d /\ KeyOf[c] = KeyOf[d] /\ PayloadOf[c] = PayloadOf[d] => ~(sent[c] /\ sent[d])

-----------------------------------------------------------------------------
(* Leases, outcomes and the journal. *)

\* The operation is under way, or it settled with unresolved cleanup.
Owes(c) == c \in Active \/ (pc[c] = "settled" /\ mem[c].cleanup # "complete")

\* The leases of an operation are exactly what it asked for while it is under
\* way or its cleanup is unresolved, and none at any other time: no path
\* through cancellation, grace, late answers or reconciliation leaks a lease
\* or drops one early.
LeasesFollowOperations ==
  \A c \in Calls : {r \in Resources : slot[r].op = c} = IF Owes(c) THEN Needs[c] ELSE {}

\* A caller who is told "completed" can find exactly that record on disk.
CompletedIsDurable ==
  \A c \in Calls : pc[c] = "settled" /\ mem[c].state = "completed" => disk[c] = mem[c]

\* The answer of a settled operation does not change while the runtime lives,
\* except that unresolved cleanup becomes complete: a write, grant or timer
\* that answers late finds nobody waiting.
AnswerIsFinal ==
  [][\A c \in Calls :
       pc[c] = "settled" /\ crashes' = crashes =>
         /\ pc'[c] = "settled"
         /\ mem'[c] \in {mem[c], [mem[c] EXCEPT !.cleanup = "complete"]}]_vars

\* A quarantined lease becomes free only when its operation has stopped acting
\* and the journal already holds its completed cleanup.
QuarantineLiftsOnProof ==
  [][\A r \in Resources :
       slot[r].state = "quarantined" /\ slot'[r] # slot[r] /\ crashes' = crashes =>
         ~live[slot[r].op] /\ disk[slot[r].op].cleanup = "complete"]_vars

-----------------------------------------------------------------------------
(* Admission and drain. *)

\* Admission is open only when the storage is sound and every operation of an
\* earlier runtime is settled on disk and has let go of the machine.
AdmissionOpensSafely ==
  initialized /\ ~sealed =>
    /\ ~poisoned
    /\ \A c \in hist : ~NeedsRecovery(disk[c]) /\ ~live[c]

\* drainOperations reports success only when no operation of this runtime
\* still acts on the machine and no lease is left, also for operations that
\* settled as unknown before the drain began.
DrainCleanIsQuiet ==
  [][drain.phase = "waiting" /\ drain'.phase = "clean" =>
       /\ \A c \in Calls : pc[c] # "lost" => ~live[c]
       /\ \A r \in Resources : slot[r] = FreeSlot]_vars

-----------------------------------------------------------------------------
(* Progress.  The adapter and the store may hang forever. *)

\* Every operation settles, or dies with the runtime.
EveryOperationSettles == \A c \in Calls : c \in Active ~> c \notin Active

\* A drain comes to a verdict.
DrainEndsEventually == drain.phase = "waiting" ~> drain.phase # "waiting"

\* Neither an adapter, a store nor a native status that never answers keeps an
\* operation, or a drain that waits for it, open forever.
WorkEnds == EveryOperationSettles /\ DrainEndsEventually

-----------------------------------------------------------------------------
(* The abstract specification. *)

\* What an operation owns: its leases, and after a crash, as long as it may
\* act, what it needed.
OwnedPairs ==
  {p \in Resources \X Calls :
     \/ slot[p[1]].op = p[2]
     \/ p[2] \in hist /\ live[p[2]] /\ p[1] \in Needs[p[2]]}

EE == INSTANCE ExclusiveEffects
        WITH own <- OwnedPairs, acting <- {c \in Calls : live[c]}

\* The life cycle with its leases, quarantine and startup recovery implements
\* exclusive ownership of everything that is acted on.
ImplementsExclusiveEffects == EE!Spec

-----------------------------------------------------------------------------
(* What the documentation says and the code does not do. *)

\* docs/computer-use-architecture.md:328: a repeated clientRequestId with
\* another payload is refused.  Two calls can both pass the lookup of the key
\* while their targets are resolved, and both register an operation.
OneOperationPerKey ==
  \A c, d \in Calls :
    mem[c] # NoRecord /\ mem[d] # NoRecord /\ KeyOf[c] = KeyOf[d] => c = d

\* docs/workstreams/runtime.md:300: admission is sealed before the drain waits
\* and a failure leaves it sealed.  A recovery refresh that began before the
\* drain opens it again.
DrainKeepsSealed == drain.phase # "none" => sealed
=============================================================================
