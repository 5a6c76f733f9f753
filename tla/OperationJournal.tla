-------------------------- MODULE OperationJournal --------------------------
(***************************************************************************)
(* The rules by which the durable operation journal of the runtime accepts *)
(* or refuses a new version of an operation record: the operation state    *)
(* machine of shared/src/contracts/operations.ts and the monotonicity      *)
(* checks of runtime/src/storage/operation-journal.ts.                     *)
(*                                                                         *)
(* A record keeps the three facts the journal protects: the operation      *)
(* state, the cleanup state and the phase of the native send gate.  The    *)
(* per-entry revision counter is left out: RuntimeCore hands the writes of *)
(* one operation to the store one at a time and in revision order, so the  *)
(* stored revision is never above the one being written.                   *)
(***************************************************************************)

OperationStates ==
  {"registered", "rejected", "dispatching", "observing", "cancelling",
   "completed", "cancelled", "failed", "interrupted-unknown"}

TerminalStates ==
  {"rejected", "completed", "cancelled", "failed", "interrupted-unknown"}

\* "unknown" stands for the code's "incomplete" and "unknown".
CleanupStates == {"pending", "complete", "unknown"}

SendGates == {"not-authorized", "send-authorized"}

Record == [state : OperationStates, cleanup : CleanupStates, gate : SendGates]

\* What readStorageFile reports for an operation that has no file.
NoRecord == [state |-> "absent", cleanup |-> "pending", gate |-> "not-authorized"]

StoredRecord == Record \cup {NoRecord}

\* operationTransitions; the terminal states have no successor.
Successors(s) ==
  CASE s = "registered"  -> {"rejected", "dispatching", "cancelling", "interrupted-unknown"}
    [] s = "dispatching" -> {"observing", "cancelling", "failed", "interrupted-unknown"}
    [] s = "observing"   -> {"completed", "failed", "interrupted-unknown"}
    [] s = "cancelling"  -> {"cancelled", "failed", "interrupted-unknown"}
    [] OTHER             -> {}

\* canReachOperationState searches breadth first; the longest path of the
\* state machine has three transitions.
CanReach(from, to) ==
  \/ from = to
  \/ to \in Successors(from)
  \/ \E a \in Successors(from) :
       \/ to \in Successors(a)
       \/ \E b \in Successors(a) : to \in Successors(b)

IsTerminal(r) == r.state \in TerminalStates

\* A new send authorization is refused for a terminal operation, and an
\* authorization once durable never disappears.
GateAdvances(old, new) ==
  \/ new.gate = old.gate
  \/ old.gate = "not-authorized" /\ ~IsTerminal(old)

\* Complete cleanup is final; the unresolved cleanup of a terminal record
\* changes only to complete.
CleanupAdvances(old, new) ==
  \/ new.cleanup = "complete"
  \/ new.cleanup = old.cleanup
  \/ ~IsTerminal(old) /\ old.cleanup # "complete"

\* FileOperationJournal.persist: the first version of a record may not carry
\* an authorized gate.
Accepts(old, new) ==
  IF old = NoRecord
    THEN new.gate = "not-authorized"
    ELSE /\ CanReach(old.state, new.state)
         /\ GateAdvances(old, new)
         /\ CleanupAdvances(old, new)

\* A record that startup recovery has to settle: initializeRecovery keeps
\* what is not terminal or not completely cleaned up.
NeedsRecovery(r) == ~IsTerminal(r) \/ r.cleanup # "complete"
=============================================================================
