--------------------------- MODULE ExclusiveEffects ---------------------------
(***************************************************************************)
(* What the runtime promises about side effects: an operation acts on the  *)
(* machine only while it owns everything it needs, no resource has two     *)
(* owners, and nobody loses a resource while it may still act on it, not   *)
(* even when the runtime process dies under it.                            *)
(***************************************************************************)
CONSTANTS Calls, Resources, Needs

VARIABLES
  own,     \* pairs of a resource and the operation that owns it
  acting   \* operations that may be acting on the machine

vars == <<own, acting>>

Owned(c) == {r \in Resources : <<r, c>> \in own}

Init == own = {} /\ acting = {}

\* An operation gets all it needs or nothing.
Take(c) ==
  /\ \A r \in Needs[c], d \in Calls : <<r, d>> \notin own
  /\ own' = own \cup (Needs[c] \X {c})
  /\ UNCHANGED acting

Act(c) ==
  /\ Needs[c] \subseteq Owned(c)
  /\ acting' = acting \cup {c}
  /\ UNCHANGED own

\* The effect is over; ownership may end with it.
Rest(c) ==
  /\ c \in acting
  /\ acting' = acting \ {c}
  /\ own' \in {own, own \ (Resources \X {c})}

\* Ownership of operations that do not act ends; of several at once when the
\* process that kept the leases dies.
Give(S) ==
  /\ S \cap acting = {}
  /\ own' = own \ (Resources \X S)
  /\ UNCHANGED acting

Next ==
  \/ \E c \in Calls : Take(c) \/ Act(c) \/ Rest(c)
  \/ \E S \in SUBSET Calls : Give(S)

Spec == Init /\ [][Next]_vars
=============================================================================
